---- MODULE Spec2Model ----
(***************************************************************************)
(* Face enrollment, 1:N identification and tenant authorization of the     *)
(* gold-loan appraisal backend:                                            *)
(*   backend/services/facial_recognition_service.py  (FacialRecognitionService) *)
(*   backend/models/database.py                      (Database)            *)
(*   backend/routers/admin.py                        (verify / mapping endpoints) *)
(*                                                                         *)
(* Text values (names, bank names) are sequences of one-character strings. *)
(* Similarities are kept exact: a cosine dot/(|a|*|b|) is the record       *)
(* [d |-> dot, q |-> |a|^2 * |b|^2] and stands for d / sqrt(q); a          *)
(* threshold n/m is the record [n |-> n, m |-> m].                         *)
(***************************************************************************)
EXTENDS Integers, Sequences, FiniteSets, Bags, TLC

VARIABLES
    available,                  \* FacialRecognitionService.available and face_app loaded
    threshold,                  \* FacialRecognitionService.threshold
    overall_sessions,           \* table overall_sessions, in storage order
    appraiser_bank_branch_map,  \* table appraiser_bank_branch_map, the bag of its rows
    banks,                      \* table banks
    branches,                   \* table branches
    tenant_users,               \* table tenant_users
    result,                     \* what the last request returned
    checked_out,                \* connections taken from the pool and not yet returned
    calls                       \* requests in flight: locals and position of each

vars == <<available, threshold, overall_sessions, appraiser_bank_branch_map,
          banks, branches, tenant_users, result, checked_out, calls>>

----------------------------------------------------------------------------
(* Bounds and input sets *)

\* Number of distinct appraiser ids that enroll in the matching model.
MaxGallery == 2

\* NULL of an integer id column (SERIAL ids start at 1).
NoId == 0

\* bank_code / branch_code are cut to 20 characters.
MaxCodeLen == 20

\* None or '' of a text argument.
NoText == <<>>

Min(S) == CHOOSE x \in S : \A y \in S : x <= y

GalleryAppraisers == {"A" \o ToString(i) : i \in 1..MaxGallery}

AuthAppraisers == {"A1", "A2"}

\* Captured images: what the external extractor finds in each of them.
ImageFaces ==
    [imgA |-> <<  <<1, 0>>  >>,
     imgB |-> <<  <<3, 4>>  >>,
     imgC |-> <<  <<2, 0>>  >>,
     imgNone |-> << >>,
     imgTwo |-> <<  <<1, 0>>, <<3, 4>>  >>]

Images == DOMAIN ImageFaces

SingleFaceImages == {i \in Images : Len(ImageFaces[i]) = 1}

\* Threshold values sent to the threshold endpoint: -0.1, 0, 0.5, 0.6, 1, 1.5.
ThresholdInputs ==
    {[n |-> -1, m |-> 10], [n |-> 0, m |-> 1], [n |-> 1, m |-> 2],
     [n |-> 3, m |-> 5], [n |-> 1, m |-> 1], [n |-> 3, m |-> 2]}

DefaultThreshold == [n |-> 1, m |-> 2]

VerifyNames == {<<" ", "a", " ">>, <<"B">>, <<"c">>}

BankA == <<"s", " ", "b">>
BranchA == <<"m">>
BankB == <<"H">>
BranchB == <<"t">>

\* (bank, branch) names given to the enrollment endpoint.
TenantInputs ==
    {[bank |-> NoText, branch |-> NoText],
     [bank |-> BankA, branch |-> BranchA], [bank |-> BankB, branch |-> BranchB]}

\* (bank_id, branch_id) pairs sent to the verify and mapping endpoints.
RequestTenants == {<<1, 1>>, <<2, 2>>}

----------------------------------------------------------------------------
(* Text helpers *)

LowerChar(c) ==
    CASE c = "A" -> "a" [] c = "B" -> "b" [] c = "C" -> "c" [] c = "H" -> "h"
      [] c = "M" -> "m" [] c = "S" -> "s" [] c = "T" -> "t" [] OTHER -> c

UpperChar(c) ==
    CASE c = "a" -> "A" [] c = "b" -> "B" [] c = "c" -> "C" [] c = "h" -> "H"
      [] c = "m" -> "M" [] c = "s" -> "S" [] c = "t" -> "T" [] OTHER -> c

\* SQL LOWER(text)
Lower(s) == [i \in 1..Len(s) |-> LowerChar(s[i])]

\* str.upper()
Upper(s) == [i \in 1..Len(s) |-> UpperChar(s[i])]

\* str.replace(' ', '_')
ReplaceSpaces(s) == [i \in 1..Len(s) |-> IF s[i] = " " THEN "_" ELSE s[i]]

\* s[:n]
Truncate(s, n) == IF Len(s) > n THEN SubSeq(s, 1, n) ELSE s

RECURSIVE StripLeft(_)
StripLeft(s) == IF s # <<>> /\ Head(s) = " " THEN StripLeft(Tail(s)) ELSE s

RECURSIVE StripRight(_)
StripRight(s) ==
    IF s # <<>> /\ s[Len(s)] = " " THEN StripRight(SubSeq(s, 1, Len(s) - 1)) ELSE s

\* str.strip()
Strip(s) == StripRight(StripLeft(s))

\* bank.replace(' ', '_').upper()[:20]
TenantCode(name) == Truncate(Upper(ReplaceSpaces(name)), MaxCodeLen)

\* str.upper() of an appraiser id
UpperId(appraiser_id) == IF appraiser_id = "a1" THEN "A1" ELSE appraiser_id

\* f"registration_{appraiser_id}"
PseudoSessionId(appraiser_id) == "registration_" \o appraiser_id

----------------------------------------------------------------------------
(* Embeddings and similarity *)

\* ",".join(map(str, embedding.tolist())): the comma-separated fields
EncodeEmbedding(e) == [i \in 1..Len(e) |-> ToString(e[i])]

\* the fields of the empty string: "".split(",") is [""]
EmptyEncoding == <<"">>

NumberTexts == {ToString(i) : i \in -4..4}

\* float(field) succeeds
IsNumberText(s) == s \in NumberTexts

\* float(field)
ParseNumber(s) == CHOOSE i \in -4..4 : ToString(i) = s

\* every field of the stored encoding parses
Parseable(enc) == \A i \in 1..Len(enc) : IsNumberText(enc[i])

\* np.array(list(map(float, face_encoding.split(","))))
ParseEmbedding(enc) == [i \in 1..Len(enc) |-> ParseNumber(enc[i])]

RECURSIVE Dot(_, _)
Dot(a, b) == IF a = <<>> THEN 0 ELSE Head(a) * Head(b) + Dot(Tail(a), Tail(b))

\* the similarity left unnormalised: dot(a, b)
cosine_similarity_unnormalised(a, b) == [d |-> Dot(a, b), q |-> 1]

\* dot(a, b) / (norm(a) * norm(b)), as the exact value d / sqrt(q)
cosine_similarity(a, b) == [d |-> Dot(a, b), q |-> Dot(a, a) * Dot(b, b)]

Sgn(x) == IF x > 0 THEN 1 ELSE IF x < 0 THEN -1 ELSE 0

\* s1 > s2 on similarities; a similarity with q = 0 is NaN and compares False
SimGT(s1, s2) ==
    /\ s1.q > 0
    /\ s2.q > 0
    /\ Sgn(s1.d) * s1.d * s1.d * s2.q > Sgn(s2.d) * s2.d * s2.d * s1.q

\* the similarity that equals the number n/m
AsSim(t) == [d |-> t.n * t.m, q |-> t.m * t.m * t.m * t.m]

\* max_sim = -1
InitialMaxSim == [d |-> -1, q |-> 1]

----------------------------------------------------------------------------
(* Connection pool *)

\* ThreadedConnectionPool(minconn=2, maxconn=20)
maxconn == 20

\* Database.get_connection: self._pool.getconn()
get_connection(n) == n + 1

\* Database.return_connection: self._pool.putconn(conn)
return_connection(n) == n - 1

\* a storage method that returns its connection only when nothing was raised
WithConnectionLeaky(n, raised) ==
    IF raised THEN get_connection(n) ELSE return_connection(get_connection(n))

\* conn = self.get_connection(); try: ... finally: self.return_connection(conn)
\* n is the number of connections checked out before the call
WithConnection(n, raised) == return_connection(get_connection(n))

\* the get_db dependency: the connection it yielded (taken before the handler
\* ran, counted in n) goes back to the pool in its finally
get_db(n) == return_connection(n)

----------------------------------------------------------------------------
(* Storage: tenant tables *)

\* get_bank_by_code: id of the first active bank with that code, or NoId
get_bank_by_code(bs, bank_code) ==
    LET m == {i \in DOMAIN bs : bs[i].bank_code = bank_code /\ bs[i].is_active}
    IN  IF m = {} THEN NoId ELSE bs[Min(m)].id

\* create_bank: INSERT INTO banks; bank_code is UNIQUE
create_bank(bs, bank_code) ==
    IF \E i \in DOMAIN bs : bs[i].bank_code = bank_code
    THEN [ok |-> FALSE, table |-> bs, id |-> NoId]
    ELSE [ok |-> TRUE,
          table |-> Append(bs, [id |-> Len(bs) + 1, bank_code |-> bank_code,
                                is_active |-> TRUE]),
          id |-> Len(bs) + 1]

\* get_branch_by_code: id of the first active branch of the bank with that code
get_branch_by_code(brs, bank_id, branch_code) ==
    LET m == {i \in DOMAIN brs : /\ brs[i].bank_id = bank_id
                                 /\ brs[i].branch_code = branch_code
                                 /\ brs[i].is_active}
    IN  IF m = {} THEN NoId ELSE brs[Min(m)].id

\* create_branch: INSERT INTO branches; (bank_id, branch_code) is UNIQUE
create_branch(brs, bank_id, branch_code) ==
    IF \E i \in DOMAIN brs : brs[i].bank_id = bank_id /\ brs[i].branch_code = branch_code
    THEN [ok |-> FALSE, table |-> brs, id |-> NoId]
    ELSE [ok |-> TRUE,
          table |-> Append(brs, [id |-> Len(brs) + 1, bank_id |-> bank_id,
                                 branch_code |-> branch_code, is_active |-> TRUE]),
          id |-> Len(brs) + 1]

\* get_tenant_user_by_id: id of the active tenant user (bank_id, user_id)
get_tenant_user_by_id(tus, bank_id, user_id) ==
    LET m == {i \in DOMAIN tus : /\ tus[i].bank_id = bank_id
                                 /\ tus[i].user_id = user_id
                                 /\ tus[i].is_active}
    IN  IF m = {} THEN NoId ELSE tus[Min(m)].id

\* create_tenant_user: INSERT INTO tenant_users; (bank_id, user_id) is UNIQUE
create_tenant_user(tus, user_id, bank_id, branch_id) ==
    IF \E i \in DOMAIN tus : tus[i].bank_id = bank_id /\ tus[i].user_id = user_id
    THEN [ok |-> FALSE, table |-> tus, id |-> NoId]
    ELSE [ok |-> TRUE,
          table |-> Append(tus, [id |-> Len(tus) + 1, user_id |-> user_id,
                                 bank_id |-> bank_id, branch_id |-> branch_id,
                                 is_active |-> TRUE]),
          id |-> Len(tus) + 1]

\* UPDATE <table> SET is_active = %s WHERE id = %s
SetRowActive(table, id, is_active) ==
    [i \in DOMAIN table |->
        IF table[i].id = id THEN [table[i] EXCEPT !.is_active = is_active]
        ELSE table[i]]

\* SELECT id FROM <table> WHERE id = %s finds a row
HasRow(table, id) == \E i \in DOMAIN table : table[i].id = id

----------------------------------------------------------------------------
(* Storage: mapping table *)
(* The table is the bag of its rows: no query of the program reads it in   *)
(* storage order.                                                          *)

MapKeyIs(row, appraiser_id, bank_id, branch_id) ==
    /\ row.appraiser_id = appraiser_id
    /\ row.bank_id = bank_id
    /\ row.branch_id = branch_id

MapRow(appraiser_id, bank_id, branch_id, is_active) ==
    [appraiser_id |-> appraiser_id, bank_id |-> bank_id, branch_id |-> branch_id,
     is_active |-> is_active]

\* number of rows with the key
RowsWithKey(m, appraiser_id, bank_id, branch_id) ==
    CopiesIn(MapRow(appraiser_id, bank_id, branch_id, TRUE), m)
    + CopiesIn(MapRow(appraiser_id, bank_id, branch_id, FALSE), m)

\* UPDATE appraiser_bank_branch_map SET is_active = <flag> WHERE key
SetActive(m, appraiser_id, bank_id, branch_id, flag) ==
    LET n == RowsWithKey(m, appraiser_id, bank_id, branch_id)
        others == [r \in {x \in BagToSet(m) :
                            ~MapKeyIs(x, appraiser_id, bank_id, branch_id)}
                     |-> CopiesIn(r, m)]
    IN  IF n = 0 THEN m
        ELSE others (+) [r \in {MapRow(appraiser_id, bank_id, branch_id, flag)} |-> n]

\* whether the key has no row, an active row or a soft-deleted row in m
MappingState(m, appraiser_id, bank_id, branch_id) ==
    IF RowsWithKey(m, appraiser_id, bank_id, branch_id) = 0 THEN "absent"
    ELSE IF CopiesIn(MapRow(appraiser_id, bank_id, branch_id, TRUE), m) > 0
    THEN "active" ELSE "inactive"

\* the mapping upsert written with ON CONFLICT DO NOTHING
UpsertMappingDoNothing(m, appraiser_id, bank_id, branch_id) ==
    IF RowsWithKey(m, appraiser_id, bank_id, branch_id) > 0
    THEN m
    ELSE m (+) SetToBag({MapRow(appraiser_id, bank_id, branch_id, TRUE)})

\* the upsert that moves the appraiser: its rows of other keys are removed
UpsertMappingExclusive(m, appraiser_id, bank_id, branch_id) ==
    [r \in {x \in BagToSet(m) : x.appraiser_id # appraiser_id} |-> CopiesIn(r, m)]
    (+) SetToBag({MapRow(appraiser_id, bank_id, branch_id, TRUE)})

\* INSERT ... ON CONFLICT (appraiser_id, bank_id, branch_id) DO UPDATE SET is_active = true
UpsertMapping(m, appraiser_id, bank_id, branch_id) ==
    IF RowsWithKey(m, appraiser_id, bank_id, branch_id) > 0
    THEN SetActive(m, appraiser_id, bank_id, branch_id, TRUE)
    ELSE m (+) SetToBag({MapRow(appraiser_id, bank_id, branch_id, TRUE)})

\* the self-healing insert without its ON CONFLICT clause and without the constraint
InsertMappingPlain(m, appraiser_id, bank_id, branch_id) ==
    m (+) SetToBag({MapRow(appraiser_id, bank_id, branch_id, TRUE)})

\* INSERT ... ON CONFLICT (appraiser_id, bank_id, branch_id) DO NOTHING
InsertMappingIfAbsent(m, appraiser_id, bank_id, branch_id) ==
    IF RowsWithKey(m, appraiser_id, bank_id, branch_id) > 0
    THEN m
    ELSE m (+) SetToBag({MapRow(appraiser_id, bank_id, branch_id, TRUE)})

\* the removal written as DELETE FROM appraiser_bank_branch_map WHERE key
DeleteMapping(m, appraiser_id, bank_id, branch_id) ==
    [r \in {x \in BagToSet(m) : ~MapKeyIs(x, appraiser_id, bank_id, branch_id)}
       |-> CopiesIn(r, m)]

\* UPDATE appraiser_bank_branch_map SET is_active = false WHERE key
DeactivateMapping(m, appraiser_id, bank_id, branch_id) ==
    SetActive(m, appraiser_id, bank_id, branch_id, FALSE)

\* SELECT 1 FROM appraiser_bank_branch_map WHERE key AND is_active = true
ActiveMapping(m, appraiser_id, bank_id, branch_id) ==
    CopiesIn(MapRow(appraiser_id, bank_id, branch_id, TRUE), m) > 0

----------------------------------------------------------------------------
(* Storage: identities *)

\* a new row of overall_sessions for a registration; cols are the columns that
\* insert_appraiser writes on INSERT and on UPDATE alike
RegistrationRow(id, appraiser_id, cols) ==
    [id |-> id, session_id |-> PseudoSessionId(appraiser_id),
     appraiser_id |-> appraiser_id, name |-> cols.name,
     image_data |-> cols.image_data, face_encoding |-> cols.face_encoding,
     status |-> "registered", bank_id |-> cols.bank_id,
     branch_id |-> cols.branch_id, tenant_user_id |-> cols.tenant_user_id]

\* the registration written as a plain INSERT: a re-enrollment appends a row
UpsertIdentityAppend(sess, appraiser_id, cols) ==
    Append(sess, RegistrationRow(Len(sess) + 1, appraiser_id, cols))

\* the registration upsert of insert_appraiser on overall_sessions:
\* SELECT id WHERE session_id = ..., then UPDATE ... WHERE session_id or INSERT
UpsertIdentity(sess, appraiser_id, cols) ==
    LET sid == PseudoSessionId(appraiser_id)
        existing == {i \in DOMAIN sess : sess[i].session_id = sid}
    IN  IF existing # {}
        THEN [i \in DOMAIN sess |->
                IF i \in existing
                THEN [sess[i] EXCEPT !.name = cols.name,
                                     !.image_data = cols.image_data,
                                     !.face_encoding = cols.face_encoding,
                                     !.status = "registered",
                                     !.bank_id = cols.bank_id,
                                     !.branch_id = cols.branch_id,
                                     !.tenant_user_id = cols.tenant_user_id]
                ELSE sess[i]]
        ELSE Append(sess, RegistrationRow(Len(sess) + 1, appraiser_id, cols))

\* id of the registration row of appraiser_id after the upsert (RETURNING id)
IdentityRowId(sess, appraiser_id) ==
    LET m == {i \in DOMAIN sess : sess[i].session_id = PseudoSessionId(appraiser_id)}
    IN  IF m = {} THEN NoId ELSE sess[Min(m)].id

\* insert_appraiser from its transaction on: the identity and mapping upsert, with
\* the tenants as resolved and conn connections checked out
upsert_appraiser(name, appraiser_id, image_data, face_encoding, new_bank, new_branch, new_user, conn) ==
    LET ok == new_bank.ok /\ new_branch.ok /\ new_user.ok
        bank_id == new_bank.id
        branch_id == new_branch.id
        sess == UpsertIdentity(overall_sessions, appraiser_id,
                               [name |-> name, image_data |-> image_data,
                                face_encoding |-> face_encoding, bank_id |-> bank_id,
                                branch_id |-> branch_id,
                                tenant_user_id |-> new_user.id])
    IN  [ok |-> ok,
         banks |-> new_bank.table,
         branches |-> new_branch.table,
         tenant_users |-> new_user.table,
         overall_sessions |-> IF ok THEN sess ELSE overall_sessions,
         map |-> IF ok /\ bank_id # NoId /\ branch_id # NoId
                 THEN UpsertMapping(appraiser_bank_branch_map, appraiser_id,
                                    bank_id, branch_id)
                 ELSE appraiser_bank_branch_map,
         db_id |-> IF ok THEN IdentityRowId(sess, appraiser_id) ELSE NoId,
         checked_out |-> IF ok THEN WithConnection(conn, FALSE) ELSE conn,
         bank_id |-> bank_id,
         branch_id |-> branch_id,
         mapping_before |-> IF ok /\ bank_id # NoId /\ branch_id # NoId
                            THEN MappingState(appraiser_bank_branch_map, appraiser_id,
                                              bank_id, branch_id)
                            ELSE "none",
         path |-> IF ~ok THEN "none"
                  ELSE IF IdentityRowId(overall_sessions, appraiser_id) # NoId
                  THEN "updated" ELSE "inserted"]

\* insert_appraiser from "if not tenant_user_id and bank_id" on: the tenant user
\* looked up and created, each on a connection of its own
resolve_tenant_user(name, appraiser_id, image_data, face_encoding, new_bank, new_branch, conn) ==
    LET want_user == new_bank.ok /\ new_branch.ok /\ new_bank.id # NoId
        found_user == IF want_user
                      THEN get_tenant_user_by_id(tenant_users, new_bank.id, appraiser_id)
                      ELSE NoId
        new_user == IF want_user /\ found_user = NoId
                    THEN create_tenant_user(tenant_users, appraiser_id, new_bank.id,
                                            new_branch.id)
                    ELSE [ok |-> TRUE, table |-> tenant_users, id |-> found_user]
        looked == IF want_user THEN WithConnection(conn, FALSE) ELSE conn
    IN  upsert_appraiser(name, appraiser_id, image_data, face_encoding,
                         new_bank, new_branch, new_user,
                         IF want_user /\ found_user = NoId
                         THEN WithConnection(looked, ~new_user.ok) ELSE looked)

\* insert_appraiser from "if not branch_id and branch and bank_id" on: the branch
\* looked up and created, each on a connection of its own
resolve_branch(name, appraiser_id, image_data, face_encoding, branch, new_bank, conn) ==
    LET bcode == TenantCode(branch)
        want_branch == new_bank.ok /\ branch # NoText /\ new_bank.id # NoId
        found_branch == IF want_branch
                        THEN get_branch_by_code(branches, new_bank.id, bcode) ELSE NoId
        new_branch == IF want_branch /\ found_branch = NoId
                      THEN create_branch(branches, new_bank.id, bcode)
                      ELSE [ok |-> TRUE, table |-> branches, id |-> found_branch]
        looked == IF want_branch THEN WithConnection(conn, FALSE) ELSE conn
    IN  resolve_tenant_user(name, appraiser_id, image_data, face_encoding,
                            new_bank, new_branch,
                            IF want_branch /\ found_branch = NoId
                            THEN WithConnection(looked, ~new_branch.ok) ELSE looked)

\* Database.insert_appraiser: tenant resolution (each lookup and each create on its
\* own connection, each create committing on its own), then the identity and
\* mapping upsert in one transaction.
insert_appraiser(name, appraiser_id, image_data, face_encoding, bank, branch) ==
    LET code == TenantCode(bank)
        found_bank == IF bank # NoText THEN get_bank_by_code(banks, code) ELSE NoId
        new_bank == IF bank # NoText /\ found_bank = NoId
                    THEN create_bank(banks, code)
                    ELSE [ok |-> TRUE, table |-> banks, id |-> found_bank]
        looked == IF bank # NoText THEN WithConnection(checked_out, FALSE)
                  ELSE checked_out
    IN  resolve_branch(name, appraiser_id, image_data, face_encoding, branch, new_bank,
                       IF bank # NoText /\ found_bank = NoId
                       THEN WithConnection(looked, ~new_bank.ok) ELSE looked)

\* the gallery query without its status condition
get_all_rows_with_face_encoding(sess) ==
    SelectSeq(sess, LAMBDA r : r.face_encoding # NoText)

\* get_all_appraisers_with_face_encoding:
\* WHERE face_encoding IS NOT NULL AND status = 'registered'
get_all_appraisers_with_face_encoding(sess) ==
    SelectSeq(sess, LAMBDA r : r.face_encoding # NoText /\ r.status = "registered")

----------------------------------------------------------------------------
(* Results *)

\* What the caller sees of a response: the HTTP status, the success / recognized /
\* exists flag of the body ("absent" in an error body), and its error,
\* service_status and message entries ("" when the body has none).
Body(status_code, flag, error, service_status, message) ==
    [status_code |-> status_code, flag |-> flag, error |-> error,
     service_status |-> service_status, message |-> message]

NoBody == Body(0, "absent", "", "", "")

\* the dictionaries returned and the exceptions raised by register_face
RegisterBody(outcome) ==
    CASE outcome = "service_unavailable" ->
            Body(200, "false", "InsightFace library not loaded", "offline",
                 "Face registration service is currently unavailable")
      [] outcome = "error_no_face" ->
            Body(500, "absent", "", "",
                 "Face registration failed: No face detected in image")
      [] outcome = "error_multiple_faces" ->
            Body(500, "absent", "", "",
                 "Face registration failed: Multiple faces detected")
      [] outcome = "error_storage" ->
            Body(500, "absent", "", "", "Face registration failed: storage")
      [] outcome = "success" ->
            Body(200, "true", "", "", "Face registered successfully")

\* the dictionaries returned by recognize_face
RecognizeBody(outcome) ==
    CASE outcome = "service_unavailable" ->
            Body(200, "false", "InsightFace library not loaded", "offline",
                 "Face recognition service is currently unavailable")
      [] outcome = "no_face_detected" ->
            Body(200, "false", "no_face_detected", "", "No face detected in image")
      [] outcome = "multiple_faces" ->
            Body(200, "false", "multiple_faces", "", "Multiple faces detected")
      [] outcome = "face_detection_error" ->
            Body(200, "false", "face_detection_error", "",
                 "Face detection failed: Face recognition service not available")
      [] outcome = "no_match" ->
            Body(200, "false", "", "", "No matching appraiser found")
      [] outcome = "recognized" ->
            Body(200, "true", "", "", "")
      [] outcome = "error_storage" ->
            Body(500, "absent", "", "", "Face recognition failed: storage")

\* the responses of the threshold, verify-appraiser and appraiser-mapping endpoints
OtherBody(op, outcome) ==
    CASE outcome = "invalid_threshold" ->
            Body(500, "absent", "", "", "Threshold must be between 0.0 and 1.0")
      [] outcome = "authorized" -> Body(200, "true", "", "", "is authorized")
      [] outcome = "registered_elsewhere" ->
            Body(200, "false", "", "", "exists but is not authorized")
      [] outcome = "not_registered" ->
            Body(200, "false", "", "", "is not registered in the system")
      [] outcome = "not_found" -> Body(404, "absent", "", "", "not found")
      [] outcome = "error_storage" -> Body(500, "absent", "", "", "storage")
      [] outcome = "success" -> Body(200, "true", "", "", "success")

Rendered(op, outcome) ==
    IF op = "register" THEN RegisterBody(outcome)
    ELSE IF op = "recognize" THEN RecognizeBody(outcome)
    ELSE OtherBody(op, outcome)

NoResult ==
    [op |-> "none", outcome |-> "none", appraiser_id |-> "", name |-> NoText,
     db_id |-> NoId, bank_id |-> NoId, branch_id |-> NoId,
     similarity |-> InitialMaxSim, bbox |-> "",
     old_threshold |-> DefaultThreshold, new_threshold |-> DefaultThreshold,
     path |-> "none", mapping_before |-> "none", fault |-> "none",
     response |-> NoBody]

Res(op, outcome) ==
    [NoResult EXCEPT !.op = op, !.outcome = outcome, !.response = Rendered(op, outcome)]

----------------------------------------------------------------------------
(* Matching engine *)

\* max_sim = -1; recognized_appraiser = None
NoCandidate ==
    [found |-> FALSE, max_sim |-> InitialMaxSim, name |-> NoText,
     appraiser_id |-> "", db_id |-> NoId]

\* body of the loop of recognize_face over one gallery row, with the mutated
\* comparison sim >= self.threshold
ScanStepAtThreshold(appraiser, query_embedding, thr, acc) ==
    LET enc == appraiser.face_encoding
    IN  IF enc = NoText THEN acc
        ELSE IF ~Parseable(enc) \/ Len(enc) # Len(query_embedding) THEN acc
        ELSE LET sim == cosine_similarity(ParseEmbedding(enc), query_embedding)
             IN  IF SimGT(sim, acc.max_sim) /\ ~SimGT(AsSim(thr), sim) /\ sim.q > 0
                 THEN [found |-> TRUE, max_sim |-> sim, name |-> appraiser.name,
                       appraiser_id |-> appraiser.appraiser_id, db_id |-> appraiser.id]
                 ELSE acc

\* body of the loop with the mutated comparison sim >= max_sim
ScanStepLastTie(appraiser, query_embedding, thr, acc) ==
    LET enc == appraiser.face_encoding
    IN  IF enc = NoText THEN acc
        ELSE IF ~Parseable(enc) \/ Len(enc) # Len(query_embedding) THEN acc
        ELSE LET sim == cosine_similarity(ParseEmbedding(enc), query_embedding)
             IN  IF ~SimGT(acc.max_sim, sim) /\ sim.q > 0 /\ SimGT(sim, AsSim(thr))
                 THEN [found |-> TRUE, max_sim |-> sim, name |-> appraiser.name,
                       appraiser_id |-> appraiser.appraiser_id, db_id |-> appraiser.id]
                 ELSE acc

\* body of the loop of recognize_face over one gallery row:
\* skip an empty encoding, skip a row whose encoding raises, and keep the row
\* when sim > max_sim and sim > self.threshold
ScanStep(appraiser, query_embedding, thr, acc) ==
    LET enc == appraiser.face_encoding
    IN  IF enc = NoText \/ enc = EmptyEncoding THEN acc
        ELSE IF ~Parseable(enc) \/ Len(enc) # Len(query_embedding) THEN acc
        ELSE LET sim == cosine_similarity(ParseEmbedding(enc), query_embedding)
             IN  IF SimGT(sim, acc.max_sim) /\ SimGT(sim, AsSim(thr))
                 THEN [found |-> TRUE, max_sim |-> sim, name |-> appraiser.name,
                       appraiser_id |-> appraiser.appraiser_id, db_id |-> appraiser.id]
                 ELSE acc

\* the scan without its try / except: a row that raises ends the scan without a
\* candidate
RECURSIVE ScanGalleryAbort(_, _, _, _)
ScanGalleryAbort(known, query_embedding, thr, acc) ==
    IF known = <<>> THEN acc
    ELSE LET enc == Head(known).face_encoding
         IN  IF enc # EmptyEncoding
                /\ (~Parseable(enc) \/ Len(enc) # Len(query_embedding))
             THEN NoCandidate
             ELSE ScanGalleryAbort(Tail(known), query_embedding, thr,
                                   ScanStep(Head(known), query_embedding, thr, acc))

\* for appraiser in known_appraisers: ...
RECURSIVE ScanGallery(_, _, _, _)
ScanGallery(known, query_embedding, thr, acc) ==
    IF known = <<>> THEN acc
    ELSE ScanGallery(Tail(known), query_embedding, thr,
                     ScanStep(Head(known), query_embedding, thr, acc))

\* recognize_face without its is_available() test: extract_face_embedding raises
\* "Face recognition service not available", reported as a detection failure
RecognizeResultUnchecked(sess, thr, avail, image) ==
    IF ~avail THEN Res("recognize", "face_detection_error")
    ELSE IF Len(ImageFaces[image]) = 0 THEN Res("recognize", "no_face_detected")
    ELSE IF Len(ImageFaces[image]) > 1 THEN Res("recognize", "multiple_faces")
    ELSE LET best == ScanGallery(get_all_appraisers_with_face_encoding(sess),
                                 ImageFaces[image][1], thr, NoCandidate)
         IN  IF best.found
             THEN [Res("recognize", "recognized") EXCEPT
                      !.appraiser_id = best.appraiser_id, !.name = best.name,
                      !.db_id = best.db_id, !.similarity = best.max_sim,
                      !.bbox = image]
             ELSE [Res("recognize", "no_match") EXCEPT !.bbox = image]

\* what recognize_face(image) returns on store sess under threshold thr
RecognizeResult(sess, thr, avail, image) ==
    IF ~avail THEN Res("recognize", "service_unavailable")
    ELSE IF Len(ImageFaces[image]) = 0 THEN Res("recognize", "no_face_detected")
    ELSE IF Len(ImageFaces[image]) > 1 THEN Res("recognize", "multiple_faces")
    ELSE LET best == ScanGallery(get_all_appraisers_with_face_encoding(sess),
                                 ImageFaces[image][1], thr, NoCandidate)
         IN  IF best.found
             THEN [Res("recognize", "recognized") EXCEPT
                      !.appraiser_id = best.appraiser_id, !.name = best.name,
                      !.db_id = best.db_id, !.similarity = best.max_sim,
                      !.bbox = image]
             ELSE [Res("recognize", "no_match") EXCEPT !.bbox = image]

\* FacialRecognitionService.recognize_face
recognize_face(image) ==
    /\ result' = RecognizeResult(overall_sessions, threshold, available, image)
    /\ checked_out' = IF available /\ Len(ImageFaces[image]) = 1
                      THEN WithConnection(checked_out, FALSE)
                      ELSE checked_out
    /\ UNCHANGED <<calls, available, threshold, overall_sessions, appraiser_bank_branch_map,
                   banks, branches, tenant_users>>

----------------------------------------------------------------------------
(* Requests in flight *)

CallIds == {1, 2}

\* locals of a request: the rows `known` of the gallery it fetched and has not
\* yet scanned, the running best `acc`, the candidate of a verification, and what it
\* returns; bookkeeping: the threshold when it began (thr0) and ended (thr1) and
\* the number of threshold updates in between
NoCall ==
    [op |-> "none", pc |-> "idle", image |-> "", known |-> <<>>, acc |-> NoCandidate,
     thr0 |-> DefaultThreshold, thr1 |-> DefaultThreshold, updates |-> 0,
     name |-> NoText, bank_id |-> NoId, branch_id |-> NoId, appraiser_id |-> "",
     db_id |-> NoId, ret |-> NoResult]

NoCalls == [c \in CallIds |-> NoCall]

\* the other tables, which neither a scan nor the self-heal touches
OtherTables == <<banks, branches, tenant_users>>

\* recognize_face up to the gallery fetch: the availability test, the extraction,
\* and get_all_appraisers_with_face_encoding on a connection of its own
BeginIdentify(c, image) ==
    /\ calls[c].pc = "idle"
    /\ calls' = [calls EXCEPT ![c] =
          IF ~available \/ Len(ImageFaces[image]) # 1
          THEN [NoCall EXCEPT !.op = "recognize", !.pc = "done", !.image = image,
                              !.thr0 = threshold, !.thr1 = threshold,
                              !.ret = RecognizeResult(overall_sessions, threshold,
                                                      available, image)]
          ELSE [NoCall EXCEPT !.op = "recognize", !.pc = "scan", !.image = image,
                              !.thr0 = threshold, !.thr1 = threshold,
                              !.known = get_all_appraisers_with_face_encoding(
                                            overall_sessions)]]
    /\ checked_out' = IF available /\ Len(ImageFaces[image]) = 1
                      THEN WithConnection(checked_out, FALSE)
                      ELSE checked_out
    /\ UNCHANGED <<available, threshold, overall_sessions, appraiser_bank_branch_map,
                   result, OtherTables>>

\* the loop with max_sim and recognized_appraiser shared by the requests
ScanRowShared(c) ==
    /\ calls[c].pc = "scan"
    /\ calls' = [calls EXCEPT ![c] =
          IF calls[c].known = <<>>
          THEN [@ EXCEPT !.pc = "done", !.thr1 = threshold,
                         !.ret = IF calls[1].acc.found
                                 THEN [Res("recognize", "recognized") EXCEPT
                                          !.appraiser_id = calls[1].acc.appraiser_id,
                                          !.name = calls[1].acc.name,
                                          !.db_id = calls[1].acc.db_id,
                                          !.similarity = calls[1].acc.max_sim,
                                          !.bbox = calls[c].image]
                                 ELSE [Res("recognize", "no_match") EXCEPT
                                          !.bbox = calls[c].image]]
          ELSE [@ EXCEPT !.known = Tail(@),
                         !.acc = ScanStep(Head(calls[c].known),
                                          ImageFaces[calls[c].image][1],
                                          threshold, calls[1].acc)]]
    /\ UNCHANGED <<available, threshold, overall_sessions, appraiser_bank_branch_map,
                   result, checked_out, OtherTables>>

\* one pass of the loop of recognize_face, self.threshold read in that pass; after
\* the last row, the return value
ScanRow(c) ==
    /\ calls[c].pc = "scan"
    /\ calls' = [calls EXCEPT ![c] =
          IF calls[c].known = <<>>
          THEN [@ EXCEPT !.pc = "done", !.thr1 = threshold,
                         !.ret = IF calls[c].acc.found
                                 THEN [Res("recognize", "recognized") EXCEPT
                                          !.appraiser_id = calls[c].acc.appraiser_id,
                                          !.name = calls[c].acc.name,
                                          !.db_id = calls[c].acc.db_id,
                                          !.similarity = calls[c].acc.max_sim,
                                          !.bbox = calls[c].image]
                                 ELSE [Res("recognize", "no_match") EXCEPT
                                          !.bbox = calls[c].image]]
          ELSE [@ EXCEPT !.known = Tail(@),
                         !.acc = ScanStep(Head(calls[c].known),
                                          ImageFaces[calls[c].image][1],
                                          threshold, calls[c].acc)]]
    /\ UNCHANGED <<available, threshold, overall_sessions, appraiser_bank_branch_map,
                   result, checked_out, OtherTables>>

\* the request answers
Return(c) ==
    /\ calls[c].pc = "done"
    /\ result' = calls[c].ret
    /\ calls' = [calls EXCEPT ![c] = NoCall]
    /\ UNCHANGED <<available, threshold, overall_sessions, appraiser_bank_branch_map,
                   checked_out, OtherTables>>

----------------------------------------------------------------------------
(* Threshold *)

\* bookkeeping: every scan in flight notes that update_threshold ran (0, 1, many)
NoteUpdate(cs) ==
    [c \in DOMAIN cs |->
        IF cs[c].pc = "scan"
        THEN [cs[c] EXCEPT !.updates = IF @ = 0 THEN 1 ELSE 2]
        ELSE cs[c]]

\* 0.0 <= new_threshold <= 1.0
ThresholdAccepted(t) == 0 <= t.n /\ t.n <= t.m

\* update_threshold that validates but forgets to store the new value
update_threshold_not_stored(t) ==
    /\ threshold' = threshold
    /\ result' = IF ThresholdAccepted(t)
                 THEN [Res("update_threshold", "success") EXCEPT
                          !.old_threshold = threshold, !.new_threshold = t]
                 ELSE Res("update_threshold", "invalid_threshold")
    /\ calls' = NoteUpdate(calls)
    /\ UNCHANGED <<available, overall_sessions, appraiser_bank_branch_map,
                   banks, branches, tenant_users, checked_out>>

\* update_threshold that rejects the boundary values 0 and 1
update_threshold_open_interval(t) ==
    /\ threshold' = IF 0 < t.n /\ t.n < t.m THEN t ELSE threshold
    /\ result' = IF 0 < t.n /\ t.n < t.m
                 THEN [Res("update_threshold", "success") EXCEPT
                          !.old_threshold = threshold, !.new_threshold = t]
                 ELSE Res("update_threshold", "invalid_threshold")
    /\ calls' = NoteUpdate(calls)
    /\ UNCHANGED <<available, overall_sessions, appraiser_bank_branch_map,
                   banks, branches, tenant_users, checked_out>>

\* FacialRecognitionService.update_threshold
update_threshold(t) ==
    /\ threshold' = IF ThresholdAccepted(t) THEN t ELSE threshold
    /\ result' = IF ThresholdAccepted(t)
                 THEN [Res("update_threshold", "success") EXCEPT
                          !.old_threshold = threshold, !.new_threshold = t]
                 ELSE Res("update_threshold", "invalid_threshold")
    /\ calls' = NoteUpdate(calls)
    /\ UNCHANGED <<available, overall_sessions, appraiser_bank_branch_map,
                   banks, branches, tenant_users, checked_out>>

----------------------------------------------------------------------------
(* Enrollment *)

\* register_face that stores the appraiser before it looks for a face
register_face_store_first(name, appraiser_id, image, bank, branch) ==
    \E ins \in {insert_appraiser(name, appraiser_id, image, NoText, bank, branch)} :
        /\ banks' = ins.banks
        /\ branches' = ins.branches
        /\ tenant_users' = ins.tenant_users
        /\ overall_sessions' = ins.overall_sessions
        /\ appraiser_bank_branch_map' = ins.map
        /\ result' = IF ~available THEN Res("register", "service_unavailable")
                     ELSE IF Len(ImageFaces[image]) = 0
                     THEN Res("register", "error_no_face")
                     ELSE IF Len(ImageFaces[image]) > 1
                     THEN Res("register", "error_multiple_faces")
                     ELSE IF ins.ok
                     THEN [Res("register", "success") EXCEPT
                              !.appraiser_id = appraiser_id,
                              !.db_id = ins.db_id, !.bbox = image,
                              !.path = ins.path,
                              !.mapping_before = ins.mapping_before]
                     ELSE Res("register", "error_storage")
        /\ checked_out' = ins.checked_out
        /\ UNCHANGED <<calls, available, threshold>>

\* FacialRecognitionService.register_face
register_face(name, appraiser_id, image, bank, branch) ==
    IF ~available
    THEN /\ result' = Res("register", "service_unavailable")
         /\ UNCHANGED <<calls, available, threshold, overall_sessions,
                        appraiser_bank_branch_map, banks, branches, tenant_users,
                        checked_out>>
    ELSE IF Len(ImageFaces[image]) # 1
    THEN /\ result' = Res("register", IF Len(ImageFaces[image]) = 0
                                      THEN "error_no_face" ELSE "error_multiple_faces")
         /\ UNCHANGED <<calls, available, threshold, overall_sessions,
                        appraiser_bank_branch_map, banks, branches, tenant_users,
                        checked_out>>
    ELSE \E ins \in {insert_appraiser(name, appraiser_id, image,
                                       EncodeEmbedding(ImageFaces[image][1]),
                                       bank, branch)} :
             /\ banks' = ins.banks
             /\ branches' = ins.branches
             /\ tenant_users' = ins.tenant_users
             /\ overall_sessions' = ins.overall_sessions
             /\ appraiser_bank_branch_map' = ins.map
             /\ result' = IF ins.ok
                          THEN [Res("register", "success") EXCEPT
                                   !.appraiser_id = appraiser_id,
                                   !.db_id = ins.db_id, !.bbox = image,
                                   !.path = ins.path,
                                   !.mapping_before = ins.mapping_before]
                          ELSE Res("register", "error_storage")
             /\ checked_out' = ins.checked_out
             /\ UNCHANGED <<calls, available, threshold>>

\* PUT /api/bank/{bank_id} with is_active in the body: 404 for an unknown id
update_bank(bank_id, is_active) ==
    /\ banks' = IF HasRow(banks, bank_id) THEN SetRowActive(banks, bank_id, is_active)
                ELSE banks
    /\ result' = Res("update_bank",
                     IF HasRow(banks, bank_id) THEN "success" ELSE "not_found")
    /\ checked_out' = get_db(get_connection(checked_out))
    /\ UNCHANGED <<calls, available, threshold, overall_sessions,
                   appraiser_bank_branch_map, branches, tenant_users>>

\* PUT /api/branch/{branch_id} with is_active in the body
update_branch(branch_id, is_active) ==
    /\ branches' = IF HasRow(branches, branch_id)
                   THEN SetRowActive(branches, branch_id, is_active)
                   ELSE branches
    /\ result' = Res("update_branch",
                     IF HasRow(branches, branch_id) THEN "success" ELSE "not_found")
    /\ checked_out' = get_db(get_connection(checked_out))
    /\ UNCHANGED <<calls, available, threshold, overall_sessions,
                   appraiser_bank_branch_map, banks, tenant_users>>

\* PUT /users/{user_id} with is_active in the body
update_admin_user(user_id, is_active) ==
    /\ tenant_users' = IF HasRow(tenant_users, user_id)
                       THEN SetRowActive(tenant_users, user_id, is_active)
                       ELSE tenant_users
    /\ result' = Res("update_admin_user",
                     IF HasRow(tenant_users, user_id) THEN "success" ELSE "not_found")
    /\ checked_out' = get_db(get_connection(checked_out))
    /\ UNCHANGED <<calls, available, threshold, overall_sessions,
                   appraiser_bank_branch_map, banks, branches>>

\* the columns an enrollment without bank and branch writes
PlainCols(name, image) ==
    [name |-> name, image_data |-> image,
     face_encoding |-> EncodeEmbedding(ImageFaces[image][1]),
     bank_id |-> NoId, branch_id |-> NoId, tenant_user_id |-> NoId]

\* register_face without bank and branch, up to the SELECT id ... WHERE session_id
\* of insert_appraiser: the extraction, the connection taken, the row looked up
BeginEnroll(c, name, appraiser_id, image) ==
    /\ calls[c].pc = "idle"
    /\ calls' = [calls EXCEPT ![c] =
          IF ~available
          THEN [NoCall EXCEPT !.op = "register", !.pc = "done", !.image = image,
                              !.appraiser_id = appraiser_id, !.name = name,
                              !.ret = Res("register", "service_unavailable")]
          ELSE IF Len(ImageFaces[image]) # 1
          THEN [NoCall EXCEPT !.op = "register", !.pc = "done", !.image = image,
                              !.appraiser_id = appraiser_id, !.name = name,
                              !.ret = Res("register",
                                          IF Len(ImageFaces[image]) = 0
                                          THEN "error_no_face"
                                          ELSE "error_multiple_faces")]
          ELSE [NoCall EXCEPT !.op = "register", !.pc = "write", !.image = image,
                              !.appraiser_id = appraiser_id, !.name = name,
                              !.db_id = IdentityRowId(overall_sessions, appraiser_id)]]
    /\ checked_out' = IF available /\ Len(ImageFaces[image]) = 1
                      THEN get_connection(checked_out) ELSE checked_out
    /\ UNCHANGED <<available, threshold, overall_sessions, appraiser_bank_branch_map,
                   result, OtherTables>>

\* insert_appraiser from the UPDATE or INSERT to the commit: the INSERT of a
\* session_id that another request inserted in between violates UNIQUE(session_id),
\* the transaction is rolled back and the exception becomes the HTTP 500
EnrollWrite(c) ==
    /\ calls[c].pc = "write"
    /\ LET me == calls[c]
           conflict == me.db_id = NoId
                       /\ IdentityRowId(overall_sessions, me.appraiser_id) # NoId
           sess == UpsertIdentity(overall_sessions, me.appraiser_id,
                                  PlainCols(me.name, me.image))
       IN  /\ overall_sessions' = IF conflict THEN overall_sessions ELSE sess
           /\ calls' = [calls EXCEPT ![c] =
                 [me EXCEPT !.pc = "done",
                            !.ret = IF conflict THEN Res("register", "error_storage")
                                    ELSE [Res("register", "success") EXCEPT
                                             !.appraiser_id = me.appraiser_id,
                                             !.db_id = IdentityRowId(sess,
                                                           me.appraiser_id),
                                             !.bbox = me.image,
                                             !.path = IF me.db_id # NoId
                                                      THEN "updated" ELSE "inserted"]]]
    /\ checked_out' = return_connection(checked_out)
    /\ UNCHANGED <<available, threshold, appraiser_bank_branch_map, result,
                   OtherTables>>

----------------------------------------------------------------------------
(* Authorization resolver *)

\* WHERE os.status = 'registered' AND LOWER(os.name) = LOWER(%s), in storage order
NameCandidates(sess, name) ==
    SelectSeq(sess, LAMBDA r : r.status = "registered" /\ Lower(r.name) = Lower(name))

NotFound(m) ==
    [found |-> FALSE, map |-> m, appraiser_id |-> "", name |-> NoText, db_id |-> NoId,
     path |-> "none"]

\* the loop over the candidates, stopping at the first candidate checked
RECURSIVE VerifyFirstOnly(_, _, _, _)
VerifyFirstOnly(appraisers, m, bank_id, branch_id) ==
    IF appraisers = <<>> THEN NotFound(m)
    ELSE LET a == Head(appraisers)
         IN  IF ActiveMapping(m, a.appraiser_id, bank_id, branch_id)
             THEN [found |-> TRUE, map |-> m, appraiser_id |-> a.appraiser_id,
                   name |-> a.name, db_id |-> a.id, path |-> "mapped"]
             ELSE IF a.bank_id = bank_id /\ a.branch_id = branch_id
             THEN [found |-> TRUE,
                   map |-> InsertMappingIfAbsent(m, a.appraiser_id, bank_id, branch_id),
                   appraiser_id |-> a.appraiser_id, name |-> a.name, db_id |-> a.id,
                   path |-> "fallback"]
             ELSE NotFound(m)

\* the loop with a fallback that compares the primary bank only
RECURSIVE VerifyLoopBankOnly(_, _, _, _)
VerifyLoopBankOnly(appraisers, m, bank_id, branch_id) ==
    IF appraisers = <<>> THEN NotFound(m)
    ELSE LET a == Head(appraisers)
         IN  IF ActiveMapping(m, a.appraiser_id, bank_id, branch_id)
             THEN [found |-> TRUE, map |-> m, appraiser_id |-> a.appraiser_id,
                   name |-> a.name, db_id |-> a.id, path |-> "mapped"]
             ELSE IF a.bank_id = bank_id
             THEN [found |-> TRUE,
                   map |-> InsertMappingIfAbsent(m, a.appraiser_id, bank_id, branch_id),
                   appraiser_id |-> a.appraiser_id, name |-> a.name, db_id |-> a.id,
                   path |-> "fallback"]
             ELSE VerifyLoopBankOnly(Tail(appraisers), m, bank_id, branch_id)

\* the loop writing a mapping row for every candidate it passes over
RECURSIVE VerifyLoopHealAll(_, _, _, _)
VerifyLoopHealAll(appraisers, m, bank_id, branch_id) ==
    IF appraisers = <<>> THEN NotFound(m)
    ELSE LET a == Head(appraisers)
         IN  IF ActiveMapping(m, a.appraiser_id, bank_id, branch_id)
             THEN [found |-> TRUE, map |-> m, appraiser_id |-> a.appraiser_id,
                   name |-> a.name, db_id |-> a.id, path |-> "mapped"]
             ELSE IF a.bank_id = bank_id /\ a.branch_id = branch_id
             THEN [found |-> TRUE,
                   map |-> InsertMappingIfAbsent(m, a.appraiser_id, bank_id, branch_id),
                   appraiser_id |-> a.appraiser_id, name |-> a.name, db_id |-> a.id,
                   path |-> "fallback"]
             ELSE VerifyLoopHealAll(Tail(appraisers),
                                    InsertMappingIfAbsent(m, a.appraiser_id, bank_id,
                                                          branch_id),
                                    bank_id, branch_id)

\* for appraiser in appraisers: mapped through an active row, else through the
\* primary bank/branch with the self-healing INSERT ... ON CONFLICT DO NOTHING
RECURSIVE VerifyLoop(_, _, _, _)
VerifyLoop(appraisers, m, bank_id, branch_id) ==
    IF appraisers = <<>> THEN NotFound(m)
    ELSE LET a == Head(appraisers)
         IN  IF ActiveMapping(m, a.appraiser_id, bank_id, branch_id)
             THEN [found |-> TRUE, map |-> m, appraiser_id |-> a.appraiser_id,
                   name |-> a.name, db_id |-> a.id, path |-> "mapped"]
             ELSE IF a.bank_id = bank_id /\ a.branch_id = branch_id
             THEN [found |-> TRUE,
                   map |-> InsertMappingIfAbsent(m, a.appraiser_id, bank_id, branch_id),
                   appraiser_id |-> a.appraiser_id, name |-> a.name, db_id |-> a.id,
                   path |-> "fallback"]
             ELSE VerifyLoop(Tail(appraisers), m, bank_id, branch_id)

\* Database.verify_appraiser_exists_in_bank_branch
verify_appraiser_exists_in_bank_branch(sess, m, name, bank_id, branch_id) ==
    VerifyLoop(NameCandidates(sess, Strip(name)), m, bank_id, branch_id)

\* the endpoint with the second lookup left out: every miss reads "not registered"
VerifyResultNoSecondLookup(sess, m, name, bank_id, branch_id) ==
    LET data == verify_appraiser_exists_in_bank_branch(sess, m, Strip(name),
                                                       bank_id, branch_id)
    IN  [map |-> data.map,
         result |->
            IF data.found
            THEN [Res("verify", "authorized") EXCEPT
                     !.appraiser_id = data.appraiser_id, !.name = data.name,
                     !.db_id = data.db_id, !.bank_id = bank_id,
                     !.branch_id = branch_id, !.path = data.path]
            ELSE Res("verify", "not_registered")]

\* what the verify-appraiser endpoint answers, and the mapping table it leaves
VerifyResult(sess, m, name, bank_id, branch_id) ==
    LET data == verify_appraiser_exists_in_bank_branch(sess, m, Strip(name),
                                                       bank_id, branch_id)
        existing == NameCandidates(sess, Strip(name))
    IN  [map |-> data.map,
         result |->
            IF data.found
            THEN [Res("verify", "authorized") EXCEPT
                     !.appraiser_id = data.appraiser_id, !.name = data.name,
                     !.db_id = data.db_id, !.bank_id = bank_id,
                     !.branch_id = branch_id, !.path = data.path]
            ELSE IF existing # <<>>
            THEN [Res("verify", "registered_elsewhere") EXCEPT
                     !.bank_id = existing[1].bank_id,
                     !.branch_id = existing[1].branch_id]
            ELSE Res("verify", "not_registered")]

\* POST /verify-appraiser
verify_appraiser(name, bank_id, branch_id) ==
    LET v == VerifyResult(overall_sessions, appraiser_bank_branch_map,
                          name, bank_id, branch_id)
    IN  /\ appraiser_bank_branch_map' = v.map
        /\ result' = v.result
        /\ checked_out' = get_db(WithConnection(get_connection(checked_out), FALSE))
        /\ UNCHANGED <<calls, available, threshold, overall_sessions, banks, branches,
                       tenant_users>>

\* the answer of the endpoint for the candidate a found through path
Authorized(a, bank_id, branch_id, path) ==
    [Res("verify", "authorized") EXCEPT
        !.appraiser_id = a.appraiser_id, !.name = a.name, !.db_id = a.id,
        !.bank_id = bank_id, !.branch_id = branch_id, !.path = path]

\* the answer of the endpoint when the loop found nobody: its second lookup by name
NotAuthorized(sess, name) ==
    LET existing == NameCandidates(sess, Strip(name))
    IN  IF existing # <<>>
        THEN [Res("verify", "registered_elsewhere") EXCEPT
                 !.bank_id = existing[1].bank_id,
                 !.branch_id = existing[1].branch_id]
        ELSE Res("verify", "not_registered")

\* POST /verify-appraiser up to the SELECT of the candidates by name: the
\* connection of the endpoint and the one of the Database object are taken
BeginVerify(c, name, bank_id, branch_id) ==
    /\ calls[c].pc = "idle"
    /\ calls' = [calls EXCEPT ![c] =
          [NoCall EXCEPT !.op = "verify", !.pc = "check", !.name = name,
                         !.bank_id = bank_id, !.branch_id = branch_id,
                         !.known = NameCandidates(overall_sessions, Strip(name))]]
    /\ checked_out' = get_connection(get_connection(checked_out))
    /\ UNCHANGED <<available, threshold, overall_sessions, appraiser_bank_branch_map,
                   result, OtherTables>>

\* one pass of the loop over the candidates: the SELECT of the active mapping row
\* and the comparison with the primary bank and branch
VerifyCheck(c) ==
    /\ calls[c].pc = "check"
    /\ LET me == calls[c]
           a == Head(me.known)
       IN  IF me.known = <<>>
           THEN /\ calls' = [calls EXCEPT ![c] =
                     [me EXCEPT !.pc = "done",
                                !.ret = NotAuthorized(overall_sessions, me.name)]]
                /\ checked_out' = return_connection(checked_out)
           ELSE IF ActiveMapping(appraiser_bank_branch_map, a.appraiser_id,
                                 me.bank_id, me.branch_id)
           THEN /\ calls' = [calls EXCEPT ![c] =
                     [me EXCEPT !.pc = "done",
                                !.ret = Authorized(a, me.bank_id, me.branch_id,
                                                   "mapped")]]
                /\ checked_out' = return_connection(checked_out)
           ELSE IF a.bank_id = me.bank_id /\ a.branch_id = me.branch_id
           THEN /\ calls' = [calls EXCEPT ![c] = [me EXCEPT !.pc = "heal"]]
                /\ checked_out' = checked_out
           ELSE /\ calls' = [calls EXCEPT ![c] = [me EXCEPT !.known = Tail(@)]]
                /\ checked_out' = checked_out
    /\ UNCHANGED <<available, threshold, overall_sessions, appraiser_bank_branch_map,
                   result, OtherTables>>

\* the self-healing INSERT ... ON CONFLICT DO NOTHING with its commit, and the
\* return of the candidate
VerifyHeal(c) ==
    /\ calls[c].pc = "heal"
    /\ LET me == calls[c]
           a == Head(me.known)
       IN  /\ appraiser_bank_branch_map' =
                  InsertMappingIfAbsent(appraiser_bank_branch_map, a.appraiser_id,
                                        me.bank_id, me.branch_id)
           /\ calls' = [calls EXCEPT ![c] =
                 [me EXCEPT !.pc = "done",
                            !.ret = Authorized(a, me.bank_id, me.branch_id,
                                               "fallback")]]
    /\ checked_out' = return_connection(checked_out)
    /\ UNCHANGED <<available, threshold, overall_sessions, result, OtherTables>>

\* the endpoint answers and get_db returns its connection
ReturnVerify(c) ==
    /\ calls[c].pc = "done"
    /\ calls[c].op = "verify"
    /\ result' = calls[c].ret
    /\ calls' = [calls EXCEPT ![c] = NoCall]
    /\ checked_out' = get_db(checked_out)
    /\ UNCHANGED <<available, threshold, overall_sessions, appraiser_bank_branch_map,
                   OtherTables>>

\* get_appraiser_by_id: a row with session_id registration_<appraiser_id> exists
get_appraiser_by_id(sess, appraiser_id) ==
    \E i \in DOMAIN sess : sess[i].session_id = PseudoSessionId(appraiser_id)

\* the foreign keys of appraiser_bank_branch_map hold for (bank_id, branch_id)
TenantExists(bank_id, branch_id) ==
    /\ \E i \in DOMAIN banks : banks[i].id = bank_id
    /\ \E i \in DOMAIN branches : branches[i].id = branch_id

\* POST /appraiser-mapping, with Database.add_appraiser_to_bank_branch
add_appraiser_mapping(appraiser_id, bank_id, branch_id) ==
    /\ appraiser_bank_branch_map' =
          IF get_appraiser_by_id(overall_sessions, appraiser_id)
             /\ TenantExists(bank_id, branch_id)
          THEN UpsertMapping(appraiser_bank_branch_map, appraiser_id, bank_id, branch_id)
          ELSE appraiser_bank_branch_map
    /\ result' =
          [Res("add_mapping",
               IF ~get_appraiser_by_id(overall_sessions, appraiser_id) THEN "not_found"
               ELSE IF ~TenantExists(bank_id, branch_id) THEN "error_storage"
               ELSE "success")
           EXCEPT !.appraiser_id = appraiser_id, !.bank_id = bank_id,
                  !.branch_id = branch_id]
    /\ checked_out' =
          LET looked == WithConnection(get_connection(checked_out), FALSE)
          IN  get_db(IF get_appraiser_by_id(overall_sessions, appraiser_id)
                     THEN WithConnection(looked, ~TenantExists(bank_id, branch_id))
                     ELSE looked)
    /\ UNCHANGED <<calls, available, threshold, overall_sessions, banks, branches,
                   tenant_users>>

\* DELETE /appraiser-mapping, with Database.remove_appraiser_from_bank_branch
remove_appraiser_mapping(appraiser_id, bank_id, branch_id) ==
    /\ appraiser_bank_branch_map' =
          DeactivateMapping(appraiser_bank_branch_map, appraiser_id, bank_id, branch_id)
    /\ result' = [Res("remove_mapping", "success") EXCEPT
                     !.appraiser_id = appraiser_id, !.bank_id = bank_id,
                     !.branch_id = branch_id]
    /\ checked_out' = get_db(WithConnection(get_connection(checked_out), FALSE))
    /\ UNCHANGED <<calls, available, threshold, overall_sessions, banks, branches,
                   tenant_users>>

----------------------------------------------------------------------------
(* Storage failures: the statement named by fault raises *)

\* the storage statements of an enrollment: the first tenant lookup, the identity
\* upsert, the mapping upsert
EnrollFaults == {"tenant", "identity", "mapping"}

\* the storage statements of a verification: the candidates query, the mapping
\* query, the self-healing insert, the bank and branch name queries, the second
\* lookup of the endpoint
VerifyFaults == {"candidates", "mapping", "heal", "names", "existing"}

\* the gallery query failing, read as an empty gallery
RecognizeRaisedAsNoMatch(image) == [Res("recognize", "no_match") EXCEPT !.bbox = image]

\* recognize_face when get_all_appraisers_with_face_encoding raises: the outer
\* except raises "Face recognition failed", the endpoint answers HTTP 500
RecognizeRaised(image) == Res("recognize", "error_storage")

\* FacialRecognitionService.recognize_face with the gallery query raising; the
\* query is reached with the extractor loaded and one face in the image
recognize_face_raising(image) ==
    /\ available
    /\ Len(ImageFaces[image]) = 1
    /\ result' = [RecognizeRaised(image) EXCEPT !.fault = "gallery"]
    /\ checked_out' = WithConnection(checked_out, TRUE)
    /\ UNCHANGED <<calls, available, threshold, overall_sessions, appraiser_bank_branch_map,
                   banks, branches, tenant_users>>

\* FacialRecognitionService.register_face with a statement of insert_appraiser
\* raising. The creates of the tenant resolution committed on connections of
\* their own before the transaction; conn.rollback() undoes the identity and
\* mapping upsert only.
register_face_raising(name, appraiser_id, image, bank, branch, fault) ==
    /\ available
    /\ Len(ImageFaces[image]) = 1
    /\ \E ins \in {insert_appraiser(name, appraiser_id, image,
                                     EncodeEmbedding(ImageFaces[image][1]),
                                     bank, branch)} :
          /\ CASE fault = "tenant" -> bank # NoText
               [] fault = "identity" -> ins.ok
               [] fault = "mapping" ->
                     ins.ok /\ ins.bank_id # NoId /\ ins.branch_id # NoId
          /\ banks' = IF fault = "tenant" THEN banks ELSE ins.banks
          /\ branches' = IF fault = "tenant" THEN branches ELSE ins.branches
          /\ tenant_users' = IF fault = "tenant" THEN tenant_users
                             ELSE ins.tenant_users
          /\ checked_out' = IF fault = "tenant" THEN WithConnection(checked_out, TRUE)
                            ELSE ins.checked_out
    /\ result' = [Res("register", "error_storage") EXCEPT !.fault = fault]
    /\ UNCHANGED <<calls, available, threshold, overall_sessions,
                   appraiser_bank_branch_map>>

\* POST /verify-appraiser with a statement raising: every exception becomes
\* HTTP 500. The self-healing insert is committed before the name queries run.
verify_appraiser_raising(name, bank_id, branch_id, fault) ==
    \E v \in {VerifyResult(overall_sessions, appraiser_bank_branch_map,
                           name, bank_id, branch_id)} :
        /\ CASE fault = "candidates" -> TRUE
             [] fault = "mapping" ->
                   NameCandidates(overall_sessions, Strip(name)) # <<>>
             [] fault = "heal" ->
                   v.result.outcome = "authorized" /\ v.result.path = "fallback"
             [] fault = "names" -> v.result.outcome = "authorized"
             [] fault = "existing" -> v.result.outcome # "authorized"
        /\ appraiser_bank_branch_map' = IF fault = "names" THEN v.map
                                        ELSE appraiser_bank_branch_map
        /\ result' = [Res("verify", "error_storage") EXCEPT !.fault = fault]
        /\ checked_out' = get_db(WithConnection(get_connection(checked_out), TRUE))
        /\ UNCHANGED <<calls, available, threshold, overall_sessions, banks, branches,
                       tenant_users>>

----------------------------------------------------------------------------
(* Specifications *)

\* The matching model: an empty store, the default threshold, the extractor
\* loaded or not.
Init ==
    /\ available \in BOOLEAN
    /\ threshold = DefaultThreshold
    /\ overall_sessions = <<>>
    /\ appraiser_bank_branch_map = EmptyBag
    /\ banks = <<>>
    /\ branches = <<>>
    /\ tenant_users = <<>>
    /\ result = NoResult
    /\ checked_out = 0
    /\ calls = NoCalls

\* an empty store with the extractor loaded
InitAvailable == Init /\ available

Enroll ==
    \E appraiser_id \in GalleryAppraisers, image \in Images :
        register_face(<<"A">>, appraiser_id, image, NoText, NoText)

Identify == \E image \in Images : recognize_face(image)

UpdateThreshold == \E t \in ThresholdInputs : update_threshold(t)

Next == Enroll \/ Identify \/ UpdateThreshold

Spec == Init /\ [][Next]_vars

\* A registration written before the mapping table existed: primary bank and
\* branch set, no mapping row.
LegacyRegistration ==
    [id |-> 1, session_id |-> PseudoSessionId("A1"), appraiser_id |-> "A1",
     name |-> <<"A">>, image_data |-> "imgA",
     face_encoding |-> EncodeEmbedding(ImageFaces["imgA"][1]),
     status |-> "registered", bank_id |-> 1, branch_id |-> 1, tenant_user_id |-> 1]

\* The tenants of the authorization model, as the tenant management endpoints
\* create them: two banks with one branch each, and the appraisers as tenant users.
TenantBanks ==
    <<[id |-> 1, bank_code |-> TenantCode(BankA), is_active |-> TRUE],
      [id |-> 2, bank_code |-> TenantCode(BankB), is_active |-> TRUE]>>

TenantBranches ==
    <<[id |-> 1, bank_id |-> 1, branch_code |-> TenantCode(BranchA), is_active |-> TRUE],
      [id |-> 2, bank_id |-> 2, branch_code |-> TenantCode(BranchB), is_active |-> TRUE]>>

TenantUsers ==
    <<[id |-> 1, user_id |-> "A1", bank_id |-> 1, branch_id |-> 1, is_active |-> TRUE],
      [id |-> 2, user_id |-> "A1", bank_id |-> 2, branch_id |-> 2, is_active |-> TRUE],
      [id |-> 3, user_id |-> "A2", bank_id |-> 1, branch_id |-> 1, is_active |-> TRUE],
      [id |-> 4, user_id |-> "A2", bank_id |-> 2, branch_id |-> 2, is_active |-> TRUE]>>

\* The authorization model: the extractor loaded, the tenants in place, the
\* identity store empty or holding a legacy registration.
InitAuth ==
    /\ available = TRUE
    /\ threshold = DefaultThreshold
    /\ appraiser_bank_branch_map = EmptyBag
    /\ banks = TenantBanks
    /\ branches = TenantBranches
    /\ tenant_users = TenantUsers
    /\ result = NoResult
    /\ checked_out = 0
    /\ calls = NoCalls
    /\ overall_sessions \in {<<>>, <<LegacyRegistration>>}

\* (appraiser_id, name) pairs given to the enrollment endpoint
EnrollRequests ==
    {[appraiser_id |-> "A1", name |-> <<"A">>],
     [appraiser_id |-> "A2", name |-> <<"a">>],
     [appraiser_id |-> "A2", name |-> <<"b">>]}

EnrollAuth ==
    \E who \in EnrollRequests, tenant \in TenantInputs :
        register_face(who.name, who.appraiser_id, "imgA", tenant.bank, tenant.branch)

VerifyAuthorized ==
    \E name \in VerifyNames, t \in RequestTenants : verify_appraiser(name, t[1], t[2])

\* (bank_id, branch_id) of the mapping requests; bank 3 / branch 3 do not exist
MappingTenants == RequestTenants \cup {<<3, 3>>}

AddMapping ==
    \E appraiser_id \in AuthAppraisers, t \in MappingTenants :
        add_appraiser_mapping(appraiser_id, t[1], t[2])

RemoveMapping ==
    \E appraiser_id \in AuthAppraisers, t \in RequestTenants :
        remove_appraiser_mapping(appraiser_id, t[1], t[2])

NextAuth == EnrollAuth \/ VerifyAuthorized \/ AddMapping \/ RemoveMapping

SpecAuth == InitAuth /\ [][NextAuth]_vars

\* The enrollment model: an empty database, the extractor loaded or not;
\* enrollments with and without tenant context, of images with one face, none
\* and two, and removals of mappings.
EnrollImages == {"imgA", "imgNone", "imgTwo"}

EnrollTenant ==
    \E tenant \in TenantInputs, image \in EnrollImages :
        register_face(<<"A">>, "A1", image, tenant.bank, tenant.branch)

NextEnroll == EnrollTenant \/ RemoveMapping

SpecEnroll == Init /\ [][NextEnroll]_vars

\* Number of rows of overall_sessions in the stored-gallery model.
MaxStored == 3

\* face_encoding values a row of overall_sessions can hold (the column is TEXT):
\* two embeddings, a field that is no number, an embedding of another length,
\* the zero vector, the empty string, NULL
StoredEncodings ==
    {<<"1", "0">>, <<"3", "4">>, <<"x", "0">>, <<"1">>, <<"0", "0">>,
     EmptyEncoding, NoText}

\* (face_encoding, status) of the stored rows: registrations with every encoding,
\* a registration whose status update_session_field changed, and a session row
StoredKinds ==
    {[face_encoding |-> e, status |-> "registered"] : e \in StoredEncodings}
    \cup {[face_encoding |-> <<"1", "0">>, status |-> "completed"],
          [face_encoding |-> NoText, status |-> "in_progress"]}

\* row i of a stored gallery; a session row carries the appraiser_id "A1"
StoredRow(i, kind) ==
    [id |-> i,
     session_id |-> IF kind.status = "in_progress" THEN "session_" \o ToString(i)
                    ELSE PseudoSessionId("A" \o ToString(i)),
     appraiser_id |-> IF kind.status = "in_progress" THEN "A1" ELSE "A" \o ToString(i),
     name |-> <<"A">>, image_data |-> "", face_encoding |-> kind.face_encoding,
     status |-> kind.status, bank_id |-> NoId, branch_id |-> NoId,
     tenant_user_id |-> NoId]

StoredGalleries ==
    UNION {{[i \in 1..n |-> StoredRow(i, kinds[i])] : kinds \in [1..n -> StoredKinds]}
           : n \in 0..MaxStored}

\* The stored-gallery model: Identify over every content of overall_sessions up
\* to MaxStored rows, under the thresholds 0.5 and 0.6.
InitStored ==
    /\ available = TRUE
    /\ threshold \in {[n |-> 1, m |-> 2], [n |-> 3, m |-> 5]}
    /\ overall_sessions \in StoredGalleries
    /\ appraiser_bank_branch_map = EmptyBag
    /\ banks = <<>>
    /\ branches = <<>>
    /\ tenant_users = <<>>
    /\ result = NoResult
    /\ checked_out = 0
    /\ calls = NoCalls

IdentifyStored == \E image \in Images : recognize_face(image)

SpecStored == InitStored /\ [][IdentifyStored]_vars

\* the registration of appraiser_id with the face of image
Enrolled(sess, appraiser_id, image) ==
    UpsertIdentity(sess, appraiser_id,
                   [name |-> <<"A">>, image_data |-> image,
                    face_encoding |-> EncodeEmbedding(ImageFaces[image][1]),
                    bank_id |-> NoId, branch_id |-> NoId, tenant_user_id |-> NoId])

\* the stores left by enrolling A1 and A2, each with a single-face image
EnrolledGalleries ==
    {Enrolled(Enrolled(<<>>, "A1", i1), "A2", i2) : i1, i2 \in SingleFaceImages}

\* Requests in flight over an enrolled gallery, the threshold as some accepted
\* update left it.
InitCalls ==
    /\ available = TRUE
    /\ threshold \in {t \in ThresholdInputs : ThresholdAccepted(t)}
    /\ overall_sessions \in EnrolledGalleries
    /\ appraiser_bank_branch_map = EmptyBag
    /\ banks = <<>>
    /\ branches = <<>>
    /\ tenant_users = <<>>
    /\ result = NoResult
    /\ checked_out = 0
    /\ calls = NoCalls

\* Identify requests that interleave row by row, no writer running.
ParallelBegin == \E c \in CallIds, image \in Images : BeginIdentify(c, image)

ParallelScan == \E c \in CallIds : ScanRow(c)

ParallelReturn == \E c \in CallIds : Return(c)

NextParallel == ParallelBegin \/ ParallelScan \/ ParallelReturn

SpecParallel == InitCalls /\ [][NextParallel]_vars

\* One Identify request that threshold updates overtake between two rows.
RaceBegin == \E image \in SingleFaceImages : BeginIdentify(1, image)

RaceScan == ScanRow(1)

RaceReturn == Return(1)

NextRace == RaceBegin \/ RaceScan \/ RaceReturn \/ UpdateThreshold

SpecRace == InitCalls /\ [][NextRace]_vars

\* bank names given to the enrollment endpoint in the tenant model: BankA, BankA in
\* capitals, and BankA without its inner space
TenantNames == {BankA, <<"S", " ", "B">>, <<"s", "b">>}

\* is_active values sent to the tenant endpoints: they switch rows off
ActiveInputs == {FALSE}

\* ids of the tenant endpoints: the rows the model can hold, and one beyond
TenantIds == 1..2

\* The tenant model: one appraiser enrolling under bank and branch names, the
\* tenant endpoints switching banks, branches and tenant users off.
EnrollNamed ==
    \E bank \in TenantNames \cup {NoText}, branch \in {NoText, BranchA} :
        register_face(<<"A">>, "A1", "imgA", bank, branch)

UpdateBank == \E id \in TenantIds, is_active \in ActiveInputs : update_bank(id, is_active)

UpdateBranch ==
    \E id \in TenantIds, is_active \in ActiveInputs : update_branch(id, is_active)

UpdateAdminUser ==
    \E id \in TenantIds, is_active \in ActiveInputs : update_admin_user(id, is_active)

NextTenant == EnrollNamed \/ UpdateBank \/ UpdateBranch \/ UpdateAdminUser

SpecTenant == InitAvailable /\ [][NextTenant]_vars

\* (bank, branch) names of the partial-context model: none, the bank alone, the
\* branch alone, both
PartialTenants ==
    {[bank |-> NoText, branch |-> NoText], [bank |-> BankA, branch |-> NoText],
     [bank |-> NoText, branch |-> BranchA], [bank |-> BankA, branch |-> BranchA]}

\* The partial-context model: A1 enrolling with all, part or none of its tenant
\* context, verifications, and the mapping endpoints.
EnrollPartial ==
    \E tenant \in PartialTenants :
        register_face(<<"A">>, "A1", "imgA", tenant.bank, tenant.branch)

AddMappingPartial ==
    \E t \in MappingTenants : add_appraiser_mapping("A1", t[1], t[2])

RemoveMappingPartial ==
    \E t \in RequestTenants : remove_appraiser_mapping("A1", t[1], t[2])

NextPartial ==
    EnrollPartial \/ VerifyAuthorized \/ AddMappingPartial \/ RemoveMappingPartial

SpecPartial == InitAvailable /\ [][NextPartial]_vars

\* appraiser ids sent to the enrollment endpoint, in capitals and not
CaseAppraisers == {"A1", "a1"}

\* The identifier model: enrollments whose appraiser_id differs in letter case.
EnrollCase ==
    \E appraiser_id \in CaseAppraisers, image \in SingleFaceImages,
       tenant \in TenantInputs :
        register_face(<<"A">>, appraiser_id, image, tenant.bank, tenant.branch)

SpecCase == InitAvailable /\ [][EnrollCase]_vars

\* Enrollments without tenant context that interleave between the lookup of the
\* registration row and its write.
UpsertBegin ==
    \E c \in CallIds, appraiser_id \in GalleryAppraisers, image \in Images :
        BeginEnroll(c, <<"A">>, appraiser_id, image)

UpsertWrite == \E c \in CallIds : EnrollWrite(c)

UpsertReturn == \E c \in CallIds : Return(c)

NextUpsert == UpsertBegin \/ UpsertWrite \/ UpsertReturn

SpecUpsert == Init /\ [][NextUpsert]_vars

\* a second registration written before the mapping table existed, same name
\* up to case, same primary bank and branch
LegacyNamesake ==
    [LegacyRegistration EXCEPT !.id = 2, !.session_id = PseudoSessionId("A2"),
                               !.appraiser_id = "A2", !.name = <<"a">>,
                               !.tenant_user_id = 3]

\* Verifications in flight over legacy registrations, the mapping row of A1
\* missing or left inactive by a removal.
InitHeal ==
    /\ available = TRUE
    /\ threshold = DefaultThreshold
    /\ overall_sessions \in {<<LegacyRegistration>>,
                              <<LegacyRegistration, LegacyNamesake>>}
    /\ appraiser_bank_branch_map \in
          {EmptyBag, SetToBag({MapRow("A1", 1, 1, FALSE)})}
    /\ banks = TenantBanks
    /\ branches = TenantBranches
    /\ tenant_users = TenantUsers
    /\ result = NoResult
    /\ checked_out = 0
    /\ calls = NoCalls

HealBegin ==
    \E c \in CallIds, name \in VerifyNames, t \in RequestTenants :
        BeginVerify(c, name, t[1], t[2])

HealCheck == \E c \in CallIds : VerifyCheck(c)

HealInsert == \E c \in CallIds : VerifyHeal(c)

HealReturn == \E c \in CallIds : ReturnVerify(c)

NextHeal == HealBegin \/ HealCheck \/ HealInsert \/ HealReturn

SpecHeal == InitHeal /\ [][NextHeal]_vars

\* The failure model: an empty database with the extractor loaded; enrollments,
\* identifications and verifications, each also with one of its storage
\* statements raising, and the removal of mappings.
FailureRequests ==
    {[appraiser_id |-> "A1", name |-> <<"A">>],
     [appraiser_id |-> "A1", name |-> <<"b">>]}

FailureImages == {"imgA", "imgNone"}

EnrollSound ==
    \E who \in FailureRequests, tenant \in TenantInputs :
        register_face(who.name, who.appraiser_id, "imgA", tenant.bank, tenant.branch)

IdentifySound == \E image \in FailureImages : recognize_face(image)

EnrollRaises ==
    \E who \in FailureRequests, tenant \in TenantInputs, fault \in EnrollFaults :
        register_face_raising(who.name, who.appraiser_id, "imgA", tenant.bank,
                              tenant.branch, fault)

IdentifyRaises == \E image \in FailureImages : recognize_face_raising(image)

VerifyRaises ==
    \E name \in VerifyNames, t \in RequestTenants, fault \in VerifyFaults :
        verify_appraiser_raising(name, t[1], t[2], fault)

NextFailure ==
    \/ EnrollSound
    \/ IdentifySound
    \/ VerifyAuthorized
    \/ EnrollRaises
    \/ IdentifyRaises
    \/ VerifyRaises
    \/ RemoveMapping

SpecFailure == InitAvailable /\ [][NextFailure]_vars

----------------------------------------------------------------------------
(* Properties of the matching engine, checked under Spec *)

\* rows of the store that take part in a scan and whose encoding parses
GalleryRows ==
    {i \in DOMAIN overall_sessions :
        /\ overall_sessions[i].status = "registered"
        /\ overall_sessions[i].face_encoding # NoText
        /\ Parseable(overall_sessions[i].face_encoding)}

\* similarity of gallery row i to the face of a single-face image
SimTo(i, image) ==
    cosine_similarity(ParseEmbedding(overall_sessions[i].face_encoding),
                      ImageFaces[image][1])

\* what an Identify of image returns in the current state
IdentifyNow(image) == RecognizeResult(overall_sessions, threshold, available, image)

\* the similarity 1.0
IsOne(sim) == sim.d > 0 /\ sim.d * sim.d = sim.q

\* C1: an Identify never returns a candidate whose similarity to the probe is at
\* or below the current threshold, and on an empty gallery it never recognizes.
C1_AboveThreshold ==
    \A image \in Images :
        LET r == IdentifyNow(image)
        IN  /\ r.outcome = "recognized" =>
                \E i \in GalleryRows :
                    /\ overall_sessions[i].id = r.db_id
                    /\ overall_sessions[i].appraiser_id = r.appraiser_id
                    /\ r.similarity = SimTo(i, image)
                    /\ SimGT(SimTo(i, image), AsSim(threshold))
            /\ GalleryRows = {} => r.outcome # "recognized"

\* an Identify answered NoMatch although a gallery row is exactly at the threshold
C1_Witness ==
    /\ result.op = "recognize"
    /\ result.outcome = "no_match"
    /\ \E i \in GalleryRows :
          /\ ~SimGT(SimTo(i, result.bbox), AsSim(threshold))
          /\ ~SimGT(AsSim(threshold), SimTo(i, result.bbox))

\* gallery rows whose similarity to image is the maximum over the gallery
MaxRows(image) ==
    {i \in GalleryRows : \A j \in GalleryRows : ~SimGT(SimTo(j, image), SimTo(i, image))}

\* C2: a recognized identity is the first row in scan order among those of maximal
\* similarity, that maximum being strictly above the threshold; when no row is
\* above the threshold the answer is NoMatch.
C2_FirstOfMaximum ==
    available =>
        \A image \in SingleFaceImages :
            LET r == IdentifyNow(image)
            IN  IF GalleryRows # {} /\ SimGT(SimTo(Min(MaxRows(image)), image),
                                             AsSim(threshold))
                THEN /\ r.outcome = "recognized"
                     /\ r.db_id = overall_sessions[Min(MaxRows(image))].id
                     /\ r.appraiser_id = overall_sessions[Min(MaxRows(image))].appraiser_id
                     /\ r.similarity = SimTo(Min(MaxRows(image)), image)
                ELSE r.outcome = "no_match"

\* an Identify recognized the first of two rows that tie at the maximum
C2_Witness ==
    /\ result.op = "recognize"
    /\ result.outcome = "recognized"
    /\ Cardinality(MaxRows(result.bbox)) = 2
    /\ result.db_id = overall_sessions[Min(MaxRows(result.bbox))].id

\* registered rows of an appraiser_id
IdentityRows(appraiser_id) ==
    {i \in DOMAIN overall_sessions :
        /\ overall_sessions[i].appraiser_id = appraiser_id
        /\ overall_sessions[i].status = "registered"}

\* C6: the store holds at most one Identity row per appraiser_id; after a
\* successful Enroll that row carries the embedding of the enrolled image, and an
\* Identify returns that appraiser only for probes the new embedding matches.
C6_UpsertInPlace ==
    /\ \A a \in GalleryAppraisers : Cardinality(IdentityRows(a)) <= 1
    /\ (result.op = "register" /\ result.outcome = "success") =>
          /\ Cardinality(IdentityRows(result.appraiser_id)) = 1
          /\ \A i \in IdentityRows(result.appraiser_id) :
                /\ overall_sessions[i].id = result.db_id
                /\ overall_sessions[i].face_encoding =
                      EncodeEmbedding(ImageFaces[result.bbox][1])
          /\ \A probe \in SingleFaceImages :
                IdentifyNow(probe).appraiser_id = result.appraiser_id =>
                    SimGT(cosine_similarity(ImageFaces[result.bbox][1],
                                            ImageFaces[probe][1]),
                          AsSim(threshold))

\* a re-enrollment replaced the embedding of imgA by that of imgB, and the probe
\* imgA, which matched before, is no longer identified
C6_Witness ==
    /\ result.op = "register"
    /\ result.outcome = "success"
    /\ result.path = "updated"
    /\ result.bbox = "imgB"
    /\ Len(overall_sessions) = 1
    /\ threshold = [n |-> 3, m |-> 5]
    /\ IdentifyNow("imgA").outcome = "no_match"

\* 0 <= t <= 1
InUnitInterval(t) == t.n >= 0 /\ t.m > 0 /\ t.n <= t.m

\* C8: update_threshold(t) fails and leaves the threshold unchanged for t outside
\* [0, 1]; for t in [0, 1] it stores t and returns the previous and the new value;
\* the threshold is in [0, 1] in every reachable state.
C8_ThresholdRange ==
    /\ [](InUnitInterval(threshold))
    /\ [][\A t \in ThresholdInputs :
            update_threshold(t) =>
                IF InUnitInterval(t)
                THEN /\ threshold' = t
                     /\ result'.outcome = "success"
                     /\ result'.old_threshold = threshold
                     /\ result'.new_threshold = t
                ELSE /\ threshold' = threshold
                     /\ result'.outcome = "invalid_threshold"]_vars

\* the boundary value 1.0 was accepted and stored
C8_Witness ==
    /\ result.op = "update_threshold"
    /\ result.outcome = "success"
    /\ result.new_threshold = [n |-> 1, m |-> 1]
    /\ result.old_threshold = [n |-> 0, m |-> 1]
    /\ threshold = [n |-> 1, m |-> 1]

\* a probe whose best gallery similarity s satisfies old < s <= new
BetweenThresholds(image, old, new) ==
    /\ GalleryRows # {}
    /\ \E i \in MaxRows(image) :
          /\ SimGT(SimTo(i, image), AsSim(old))
          /\ ~SimGT(SimTo(i, image), AsSim(new))

\* C9: after a successful update_threshold(old -> new), a probe whose best
\* similarity s satisfies old < s <= new, recognized under old, yields NoMatch.
C9_UpdateTakesEffect ==
    (available /\ result.op = "update_threshold" /\ result.outcome = "success") =>
        \A image \in SingleFaceImages :
            BetweenThresholds(image, result.old_threshold, result.new_threshold) =>
                /\ RecognizeResult(overall_sessions, result.old_threshold,
                                   available, image).outcome = "recognized"
                /\ IdentifyNow(image).outcome = "no_match"

\* the threshold went from 0.5 to 0.6 and a probe has best similarity 0.6
C9_Witness ==
    /\ available
    /\ result.op = "update_threshold"
    /\ result.outcome = "success"
    /\ result.old_threshold = [n |-> 1, m |-> 2]
    /\ result.new_threshold = [n |-> 3, m |-> 5]
    /\ \E image \in SingleFaceImages :
          /\ BetweenThresholds(image, result.old_threshold, result.new_threshold)
          /\ \E i \in MaxRows(image) : SimTo(i, image) = [d |-> 3, q |-> 25]

\* C10 as stated: after a successful Enroll of an image, Identify on the same
\* image recognizes with similarity 1.0, whatever the threshold.
C10_SelfMatchAnyThreshold ==
    (result.op = "register" /\ result.outcome = "success") =>
        /\ IdentifyNow(result.bbox).outcome = "recognized"
        /\ IsOne(IdentifyNow(result.bbox).similarity)

\* C10 amended: after a successful Enroll of an image, Identify on the same image
\* recognizes with similarity 1.0 whenever the threshold is strictly below 1.0.
C10_SelfMatchBelowOne ==
    (result.op = "register" /\ result.outcome = "success"
        /\ SimGT([d |-> 1, q |-> 1], AsSim(threshold))) =>
        /\ IdentifyNow(result.bbox).outcome = "recognized"
        /\ IsOne(IdentifyNow(result.bbox).similarity)

\* an image was enrolled into a gallery that already held another identity, under
\* a threshold other than the default
C10_Witness ==
    /\ result.op = "register"
    /\ result.outcome = "success"
    /\ Len(overall_sessions) = 2
    /\ threshold = [n |-> 3, m |-> 5]
    /\ IdentifyNow(result.bbox).outcome = "recognized"
    /\ IdentifyNow(result.bbox).appraiser_id = result.appraiser_id

----------------------------------------------------------------------------
(* Properties of the authorization resolver, checked under SpecAuth *)

\* what a verify-appraiser request answers in the current state
VerifyNow(name, bank_id, branch_id) ==
    VerifyResult(overall_sessions, appraiser_bank_branch_map, name, bank_id, branch_id)

\* row is a registered identity whose name is name, trimmed, whatever the case
HasName(row, name) ==
    row.status = "registered" /\ Lower(row.name) = Lower(Strip(name))

\* row may operate at (bank_id, branch_id): an active mapping row, or the primary
\* bank and branch of the registration
AuthorizedAt(row, bank_id, branch_id) ==
    \/ ActiveMapping(appraiser_bank_branch_map, row.appraiser_id, bank_id, branch_id)
    \/ (row.bank_id = bank_id /\ row.branch_id = branch_id)

\* rows a and b are two identities of one name enrolled at different tenants
SameNameOtherTenant(a, b) ==
    /\ a.appraiser_id # b.appraiser_id
    /\ a.status = "registered" /\ b.status = "registered"
    /\ Lower(a.name) = Lower(b.name)
    /\ a.bank_id # NoId /\ a.branch_id # NoId
    /\ b.bank_id # NoId /\ b.branch_id # NoId
    /\ <<a.bank_id, a.branch_id>> # <<b.bank_id, b.branch_id>>

\* no two rows of the mapping table m have the same (appraiser_id, bank_id, branch_id)
UniqueKeys(m) ==
    \A row \in BagToSet(m) :
        RowsWithKey(m, row.appraiser_id, row.bank_id, row.branch_id) = 1

C4_NotRegisteredVsElsewhere ==
    \A name \in VerifyNames, t \in RequestTenants :
        LET r == VerifyNow(name, t[1], t[2]).result
            named == {i \in DOMAIN overall_sessions : HasName(overall_sessions[i], name)}
            allowed == {i \in named : AuthorizedAt(overall_sessions[i], t[1], t[2])}
        IN  /\ r.outcome = "not_registered" <=> named = {}
            /\ r.outcome = "registered_elsewhere" <=> (named # {} /\ allowed = {})
            /\ r.outcome = "authorized" <=> allowed # {}

\* a verification answered "registered elsewhere" while two identities share the
\* name and neither may operate at the requested tenant
C4_Witness ==
    /\ result.op = "verify"
    /\ result.outcome = "registered_elsewhere"
    /\ Len(overall_sessions) = 2
    /\ Lower(overall_sessions[1].name) = Lower(overall_sessions[2].name)
    /\ overall_sessions[1].appraiser_id # overall_sessions[2].appraiser_id
    /\ \A t \in RequestTenants :
          VerifyNow(overall_sessions[1].name, t[1], t[2]).result.outcome
              = "registered_elsewhere"

\* C5: after a verification authorized through the primary bank and branch, the
\* same verification repeated authorizes the same appraiser through an active
\* mapping row, and the mapping table holds one row per key.
C5_IdempotentSelfHeal ==
    (result.op = "verify" /\ result.outcome = "authorized" /\ result.path = "fallback")
    => LET again == VerifyNow(result.name, result.bank_id, result.branch_id)
       IN  /\ again.result.outcome = "authorized"
           /\ again.result.appraiser_id = result.appraiser_id
           /\ again.result.path = "mapped"
           /\ UniqueKeys(appraiser_bank_branch_map)
           /\ UniqueKeys(again.map)

\* C7: after a mapping row is removed (the row is there, inactive), no
\* verification at that bank and branch authorizes that appraiser.
C7_RemovedNotAuthorized ==
    (/\ result.op = "remove_mapping"
     /\ result.outcome = "success"
     /\ CopiesIn(MapRow(result.appraiser_id, result.bank_id, result.branch_id, FALSE),
                 appraiser_bank_branch_map) = 1)
    => \A name \in VerifyNames :
          LET r == VerifyNow(name, result.bank_id, result.branch_id).result
          IN  ~(r.outcome = "authorized" /\ r.appraiser_id = result.appraiser_id)

----------------------------------------------------------------------------
(* Properties of enrollment, checked under SpecEnroll *)

\* the tables an enrollment writes
Stored == <<overall_sessions, appraiser_bank_branch_map, banks, branches, tenant_users>>

\* the outcome of an enrollment that the extractor or the face count rejects
RejectedEnroll(image) ==
    IF ~available THEN "service_unavailable"
    ELSE IF Len(ImageFaces[image]) = 0 THEN "error_no_face"
    ELSE IF Len(ImageFaces[image]) > 1 THEN "error_multiple_faces"
    ELSE "none"

\* C11: an enrollment with the extractor unavailable reports service unavailable,
\* one of an image without a face fails with the no-face error, one of an image
\* with several faces fails with the multiple-faces error, and none of the three
\* creates or changes a row of any table; an image with one face is not rejected.
C11_RejectedEnrollWritesNothing ==
    [][\A tenant \in TenantInputs, image \in EnrollImages :
          register_face(<<"A">>, "A1", image, tenant.bank, tenant.branch)
          => IF RejectedEnroll(image) # "none"
             THEN /\ result'.outcome = RejectedEnroll(image)
                  /\ result'.response = RegisterBody(RejectedEnroll(image))
                  /\ UNCHANGED Stored
             ELSE result'.outcome \in {"success", "error_storage"}]_vars

\* an enrollment of an image with two faces was rejected while the store holds an
\* identity and a bank
C11_Witness ==
    /\ result.op = "register"
    /\ result.outcome = "error_multiple_faces"
    /\ available
    /\ Len(overall_sessions) = 1
    /\ Len(banks) = 1

----------------------------------------------------------------------------
(* Rendering of an unavailable extractor, checked under Spec *)

\* what the face endpoints answer when they reject a face or find no match
RejectionBodies ==
    {RegisterBody("error_no_face"), RegisterBody("error_multiple_faces"),
     RecognizeBody("no_face_detected"), RecognizeBody("multiple_faces"),
     RecognizeBody("no_match")}

\* C12: with the extractor unavailable an Enroll or Identify answers with the
\* service-offline body, which equals no body given for a missing face, several
\* faces or no match, and which the extractor never gives when it is available;
\* an unavailable extractor never yields a no-match answer.
C12_UnavailableIsNotARejection ==
    /\ \A image \in Images :
          LET off == RecognizeResult(overall_sessions, threshold, FALSE, image)
              on == RecognizeResult(overall_sessions, threshold, TRUE, image)
          IN  /\ off.response.service_status = "offline"
              /\ off.response \notin RejectionBodies
              /\ off.response # on.response
              /\ off.outcome # "no_match"
    /\ result.op \in {"register", "recognize"} =>
          /\ result.response.service_status = "offline" <=> ~available
          /\ ~available => result.response \notin RejectionBodies
          /\ ~available => result.outcome = "service_unavailable"

\* an Identify was answered with the service-offline body
C12_Witness ==
    /\ ~available
    /\ result.op = "recognize"
    /\ result.response.service_status = "offline"
    /\ result.response.flag = "false"

----------------------------------------------------------------------------
(* The mapping written by an enrollment, checked under SpecEnroll *)

\* the registration row of appraiser_id
RegistrationOf(appraiser_id) ==
    overall_sessions[CHOOSE i \in DOMAIN overall_sessions :
                        overall_sessions[i].session_id = PseudoSessionId(appraiser_id)]

\* the tenant inputs that resolve to the bank and branch of row
TenantInputsOf(row) ==
    {t \in TenantInputs :
        /\ t.bank # NoText /\ t.branch # NoText
        /\ get_bank_by_code(banks, TenantCode(t.bank)) = row.bank_id
        /\ get_branch_by_code(branches, row.bank_id, TenantCode(t.branch)) = row.branch_id}

\* C13: after a successful Enroll whose bank and branch resolved, the key
\* (appraiser_id, bank_id, branch_id) has exactly one mapping row and it is
\* active, whether the key was absent, active or soft-deleted before; the same
\* Enroll repeated leaves the mapping table as it is.
C13_EnrollActivatesMapping ==
    (result.op = "register" /\ result.outcome = "success") =>
        LET row == RegistrationOf(result.appraiser_id)
        IN  IF row.bank_id # NoId /\ row.branch_id # NoId
            THEN /\ result.mapping_before \in {"absent", "active", "inactive"}
                 /\ ActiveMapping(appraiser_bank_branch_map, row.appraiser_id,
                                  row.bank_id, row.branch_id)
                 /\ RowsWithKey(appraiser_bank_branch_map, row.appraiser_id,
                                row.bank_id, row.branch_id) = 1
                 /\ TenantInputsOf(row) # {}
                 /\ \A t \in TenantInputsOf(row) :
                       LET again == insert_appraiser(row.name, row.appraiser_id,
                                                     row.image_data, row.face_encoding,
                                                     t.bank, t.branch)
                       IN  /\ again.ok
                           /\ again.map = appraiser_bank_branch_map
                           /\ again.mapping_before = "active"
            ELSE result.mapping_before = "none"

\* an Enroll found the mapping of its key soft-deleted and left it active
C13_Witness ==
    /\ result.op = "register"
    /\ result.outcome = "success"
    /\ result.mapping_before = "inactive"
    /\ ActiveMapping(appraiser_bank_branch_map, result.appraiser_id,
                     RegistrationOf(result.appraiser_id).bank_id,
                     RegistrationOf(result.appraiser_id).branch_id)

----------------------------------------------------------------------------
(* Which rows take part in matching, checked under SpecStored *)

\* C14: a recognized identity is a row of overall_sessions whose status is
\* 'registered' and whose face_encoding is neither NULL nor empty.
C14_OnlyRegisteredWithEmbedding ==
    \A image \in Images :
        LET r == IdentifyNow(image)
        IN  r.outcome = "recognized" =>
                \E i \in DOMAIN overall_sessions :
                    /\ overall_sessions[i].id = r.db_id
                    /\ overall_sessions[i].appraiser_id = r.appraiser_id
                    /\ overall_sessions[i].status = "registered"
                    /\ overall_sessions[i].face_encoding # NoText
                    /\ overall_sessions[i].face_encoding # EmptyEncoding

\* an Identify recognized a registered row at similarity 0.6 while a row of
\* another status holds the very embedding of the probe
C14_Witness ==
    /\ result.op = "recognize"
    /\ result.outcome = "recognized"
    /\ result.bbox = "imgA"
    /\ ~IsOne(result.similarity)
    /\ \E i \in DOMAIN overall_sessions :
          /\ overall_sessions[i].status # "registered"
          /\ overall_sessions[i].face_encoding = EncodeEmbedding(ImageFaces["imgA"][1])

\* the stored encoding of row raises when parsed or compared with a probe
Corrupt(row) ==
    /\ row.face_encoding # NoText
    /\ row.face_encoding # EmptyEncoding
    /\ \/ ~Parseable(row.face_encoding)
       \/ Len(row.face_encoding) # Len(ImageFaces["imgA"][1])

\* the store without its corrupt rows
WithoutCorrupt(sess) == SelectSeq(sess, LAMBDA r : ~Corrupt(r))

\* C15: an Identify on a store with corrupt rows returns what it returns on the
\* store without them, and does not fail.
C15_CorruptRowsSkipped ==
    \A image \in Images :
        /\ IdentifyNow(image) =
              RecognizeResult(WithoutCorrupt(overall_sessions), threshold, available,
                              image)
        /\ IdentifyNow(image).response.status_code = 200

\* an Identify recognized the row that follows two corrupt rows
C15_Witness ==
    /\ result.op = "recognize"
    /\ result.outcome = "recognized"
    /\ Len(overall_sessions) = 3
    /\ Corrupt(overall_sessions[1])
    /\ Corrupt(overall_sessions[2])
    /\ ~Parseable(overall_sessions[1].face_encoding)
    /\ Parseable(overall_sessions[2].face_encoding)
    /\ result.db_id = overall_sessions[3].id

----------------------------------------------------------------------------
(* Soft deletion of mappings, checked under SpecAuth *)

\* the keys (appraiser_id, bank_id, branch_id) that have a row in m
MappingKeys(m) == {<<r.appraiser_id, r.bank_id, r.branch_id>> : r \in BagToSet(m)}

\* C16: no step removes a key from the mapping table; a remove-mapping step keeps
\* the set of keys, leaves every row of another key as it is, leaves the row of
\* its key inactive when there is one, and changes nothing when there is none.
C16_SoftDeleteOnly ==
    [][/\ MappingKeys(appraiser_bank_branch_map)
             \subseteq MappingKeys(appraiser_bank_branch_map')
       /\ \A a \in AuthAppraisers, t \in RequestTenants :
             remove_appraiser_mapping(a, t[1], t[2]) =>
                LET m == appraiser_bank_branch_map
                    after == appraiser_bank_branch_map'
                IN  /\ MappingKeys(after) = MappingKeys(m)
                    /\ \A r \in BagToSet(m) \cup BagToSet(after) :
                          ~MapKeyIs(r, a, t[1], t[2]) =>
                              CopiesIn(r, after) = CopiesIn(r, m)
                    /\ MappingState(after, a, t[1], t[2]) =
                          IF MappingState(m, a, t[1], t[2]) = "absent"
                          THEN "absent" ELSE "inactive"
                    /\ RowsWithKey(after, a, t[1], t[2]) = RowsWithKey(m, a, t[1], t[2])
      ]_vars

\* a removal left the row of its key inactive while another key stays active
C16_Witness ==
    /\ result.op = "remove_mapping"
    /\ MappingState(appraiser_bank_branch_map, result.appraiser_id, result.bank_id,
                    result.branch_id) = "inactive"
    /\ \E r \in BagToSet(appraiser_bank_branch_map) : r.is_active

----------------------------------------------------------------------------
(* The connection pool, checked under SpecAuth *)

----------------------------------------------------------------------------
(* Identify requests in flight, checked under SpecParallel and SpecRace *)

\* C18: no step of an Identify changes the identity store, the mapping table or
\* the threshold, and each of several interleaved Identify requests returns what
\* recognize_face returns when run alone.
C18_ParallelIdentify ==
    /\ [](\A c \in CallIds :
             calls[c].pc = "done" =>
                 calls[c].ret = IdentifyNow(calls[c].image))
    /\ [][UNCHANGED <<overall_sessions, appraiser_bank_branch_map, threshold>>]_vars

\* two requests with different probes are in mid-scan, each with a candidate of
\* its own
C18_Witness ==
    /\ calls[1].pc = "scan"
    /\ calls[2].pc = "scan"
    /\ calls[1].image # calls[2].image
    /\ calls[1].acc.found
    /\ calls[2].acc.found
    /\ calls[1].acc.db_id # calls[2].acc.db_id

----------------------------------------------------------------------------
(* Verifications in flight, checked under SpecHeal *)

\* the request c has gone through the self-healing insert and not yet answered
Healed(c) ==
    /\ calls[c].pc = "done"
    /\ calls[c].op = "verify"
    /\ calls[c].ret.path = "fallback"

\* C20: a verification that went through the self-healing insert answers
\* "authorized", whatever another verification did in between, and the key it
\* inserted has exactly one row; the table never holds two rows of one key.
C20_ConcurrentSelfHeal ==
    /\ UniqueKeys(appraiser_bank_branch_map)
    /\ \A c \in CallIds :
          Healed(c) =>
              /\ calls[c].ret.outcome = "authorized"
              /\ calls[c].ret.response.status_code = 200
              /\ RowsWithKey(appraiser_bank_branch_map, calls[c].ret.appraiser_id,
                             calls[c].bank_id, calls[c].branch_id) = 1

\* two verifications with the same inputs, both past the self-healing insert of a
\* key that had no row when they looked
C20_Witness ==
    /\ Healed(1)
    /\ Healed(2)
    /\ calls[1].name = calls[2].name
    /\ calls[1].bank_id = calls[2].bank_id
    /\ calls[1].branch_id = calls[2].branch_id
    /\ calls[1].ret = calls[2].ret
    /\ ActiveMapping(appraiser_bank_branch_map, calls[1].ret.appraiser_id,
                     calls[1].bank_id, calls[1].branch_id)
    /\ RowsWithKey(appraiser_bank_branch_map, calls[1].ret.appraiser_id,
                   calls[1].bank_id, calls[1].branch_id) = 1

----------------------------------------------------------------------------
(* Enrollments in flight, checked under SpecUpsert *)

\* the enrollment c got its face and has been through insert_appraiser
ReachedStore(c) ==
    /\ calls[c].pc = "done"
    /\ calls[c].op = "register"
    /\ Len(ImageFaces[calls[c].image]) = 1
    /\ available

\* C21: every enrollment that reached the store succeeds, however another
\* enrollment of the same appraiser_id interleaves, and the store holds exactly one
\* registration of its appraiser_id, with the embedding of one of the enrollments.
C21_ConcurrentEnrollUpserts ==
    \A c \in CallIds :
        ReachedStore(c) =>
            /\ calls[c].ret.outcome = "success"
            /\ Cardinality({i \in DOMAIN overall_sessions :
                              overall_sessions[i].appraiser_id = calls[c].appraiser_id}) = 1

----------------------------------------------------------------------------
(* Tenant resolution of an enrollment, checked under SpecTenant *)

\* what insert_appraiser does in the current state for A1 under bank and branch
EnrollUnder(bank, branch) ==
    insert_appraiser(<<"A">>, "A1", "imgA", EncodeEmbedding(ImageFaces["imgA"][1]),
                     bank, branch)

\* C22: in every state, an enrollment under a bank name (and a branch name) goes
\* through; it resolves to the bank whose code is the code of the name when the
\* table holds one, active or not, and creates no bank then, and creates the bank
\* otherwise; the same for the branch within the bank.
C22_RegisterOnFirstUse ==
    \A bank \in TenantNames, branch \in {NoText, BranchA} :
        LET ins == EnrollUnder(bank, branch)
            known == {i \in DOMAIN banks : banks[i].bank_code = TenantCode(bank)}
            known_branch ==
                {i \in DOMAIN branches : /\ branches[i].bank_id = ins.bank_id
                                         /\ branches[i].branch_code = TenantCode(branch)}
        IN  /\ ins.ok
            /\ IF known # {}
               THEN /\ ins.banks = banks
                    /\ \E i \in known : banks[i].id = ins.bank_id
               ELSE /\ Len(ins.banks) = Len(banks) + 1
                    /\ HasRow(ins.banks, ins.bank_id)
            /\ branch # NoText =>
                  IF known_branch # {}
                  THEN /\ ins.branches = branches
                       /\ \E i \in known_branch : branches[i].id = ins.branch_id
                  ELSE /\ Len(ins.branches) = Len(branches) + 1
                       /\ HasRow(ins.branches, ins.branch_id)

\* C23: the code of a bank name is the name trimmed, in capitals, without its
\* spaces, cut to MaxCodeLen; of two names, the first resolving to a bank of the
\* table, the second resolves to the same bank exactly when the codes are equal.
C23_NormalisedLookupCode ==
    \A n1, n2 \in TenantNames :
        LET Normalised(name) ==
                Truncate(SelectSeq(Upper(Strip(name)), LAMBDA ch : ch # " "),
                         MaxCodeLen)
            first == EnrollUnder(n1, NoText)
            second == EnrollUnder(n2, NoText)
        IN  /\ TenantCode(n1) = Normalised(n1)
            /\ (first.ok /\ second.ok /\ first.banks = banks) =>
                  (second.bank_id = first.bank_id <=> Normalised(n1) = Normalised(n2))

----------------------------------------------------------------------------
(* What a verification writes, checked under SpecAuth *)

\* C24: a verification changes no table but the mapping table, and that one only
\* when it authorizes through the primary bank and branch: then it leaves the
\* table as it is or adds the one active row of the returned candidate at the
\* requested bank and branch, a key that had no row.
C24_VerifyWritesOnlyOnFallback ==
    [][\A name \in VerifyNames, t \in RequestTenants :
          verify_appraiser(name, t[1], t[2])
          => /\ UNCHANGED <<overall_sessions, banks, branches, tenant_users>>
             /\ IF result'.outcome = "authorized" /\ result'.path = "fallback"
                THEN \/ UNCHANGED appraiser_bank_branch_map
                     \/ /\ RowsWithKey(appraiser_bank_branch_map,
                                       result'.appraiser_id, t[1], t[2]) = 0
                        /\ appraiser_bank_branch_map' =
                              appraiser_bank_branch_map
                              (+) SetToBag({MapRow(result'.appraiser_id,
                                                   t[1], t[2], TRUE)})
                ELSE /\ result'.outcome \in {"authorized", "registered_elsewhere",
                                            "not_registered"}
                     /\ UNCHANGED appraiser_bank_branch_map]_vars

\* a verification authorized through the primary bank and branch and wrote the
\* mapping row, beside a row of another key
C24_Witness ==
    /\ result.op = "verify"
    /\ result.outcome = "authorized"
    /\ result.path = "fallback"
    /\ ActiveMapping(appraiser_bank_branch_map, result.appraiser_id,
                     result.bank_id, result.branch_id)
    /\ \E r \in BagToSet(appraiser_bank_branch_map) :
          ~MapKeyIs(r, result.appraiser_id, result.bank_id, result.branch_id)

----------------------------------------------------------------------------
(* The tenant reported with "registered elsewhere", checked under SpecAuth *)

\* C25: when a verification answers that the appraiser is registered elsewhere,
\* the bank and branch it names are not empty, and an identity of the requested
\* name has them as primary bank and branch or is actively mapped to them.
C25_ElsewhereIsATenant ==
    [][\A name \in VerifyNames, t \in RequestTenants :
          (verify_appraiser(name, t[1], t[2])
           /\ result'.outcome = "registered_elsewhere")
          => /\ result'.bank_id # NoId
             /\ result'.branch_id # NoId
             /\ \E i \in DOMAIN overall_sessions :
                   LET row == overall_sessions[i]
                   IN  /\ row.status = "registered"
                       /\ Lower(row.name) = Lower(Strip(name))
                       /\ \/ /\ row.bank_id = result'.bank_id
                             /\ row.branch_id = result'.branch_id
                          \/ ActiveMapping(appraiser_bank_branch_map, row.appraiser_id,
                                           result'.bank_id, result'.branch_id)]_vars

----------------------------------------------------------------------------
(* Letter case of appraiser ids, checked under SpecCase *)

\* C26: every registration and every mapping row carries an appraiser_id in
\* capitals, and no two registrations have ids that are equal up to letter case.
C26_UppercaseAppraiserId ==
    /\ \A i \in DOMAIN overall_sessions :
          overall_sessions[i].appraiser_id = UpperId(overall_sessions[i].appraiser_id)
    /\ \A r \in BagToSet(appraiser_bank_branch_map) :
          r.appraiser_id = UpperId(r.appraiser_id)
    /\ \A i, j \in DOMAIN overall_sessions :
          UpperId(overall_sessions[i].appraiser_id)
             = UpperId(overall_sessions[j].appraiser_id) => i = j

----------------------------------------------------------------------------
(* Enrollment with part of the tenant context, checked under SpecPartial *)

\* the registration lacks its primary bank or its primary branch
PartialContext(row) == row.bank_id = NoId \/ row.branch_id = NoId

\* C27: an enrollment without bank and branch, with the bank alone or with the
\* branch alone leaves the mapping table unchanged; and an identity whose
\* registration lacks the bank or the branch is authorized at a bank and branch
\* only through an active mapping row of its own there.
C27_NoMappingWithoutBoth ==
    /\ [][\A tenant \in PartialTenants :
             (register_face(<<"A">>, "A1", "imgA", tenant.bank, tenant.branch)
              /\ (tenant.bank = NoText \/ tenant.branch = NoText))
             => /\ UNCHANGED appraiser_bank_branch_map
                /\ result'.outcome = "success"
                /\ PartialContext(RegistrationOf("A1")')]_vars
    /\ [](\A i \in DOMAIN overall_sessions, t \in RequestTenants :
             LET row == overall_sessions[i]
                 v == VerifyNow(row.name, t[1], t[2]).result
             IN  (PartialContext(row) /\ v.outcome = "authorized"
                  /\ v.appraiser_id = row.appraiser_id)
                 => ActiveMapping(appraiser_bank_branch_map, row.appraiser_id,
                                  t[1], t[2]))

\* A1 enrolled anew with the bank alone: the bank is its primary bank, it has no
\* primary branch, its one mapping row is the removed one, untouched, and a
\* verification at that bank and its branch does not authorize it
C27_Witness ==
    /\ result.op = "register"
    /\ result.outcome = "success"
    /\ RegistrationOf("A1").bank_id = 1
    /\ RegistrationOf("A1").branch_id = NoId
    /\ appraiser_bank_branch_map = SetToBag({MapRow("A1", 1, 1, FALSE)})
    /\ Len(branches) = 1
    /\ VerifyNow(<<"A">>, 1, 1).result.outcome = "registered_elsewhere"

----------------------------------------------------------------------------
(* Re-enrollment under another bank and branch, checked under SpecAuth *)

\* appraiser_id has a registration
IsEnrolled(appraiser_id) ==
    \E i \in DOMAIN overall_sessions :
        overall_sessions[i].session_id = PseudoSessionId(appraiser_id)

\* C28: a successful enrollment of an enrolled appraiser under a bank and branch
\* other than its primary ones makes them its primary bank and branch and leaves
\* an active mapping row for them; every mapping row of another key is as it was;
\* a verification of the appraiser's name is authorized at every bank and branch
\* it was actively mapped to, and at the new one.
C28_ReEnrollKeepsMappings ==
    [][\A who \in EnrollRequests, tenant \in TenantInputs :
          (/\ result'.op = "register"
           /\ result'.outcome = "success"
           /\ result'.appraiser_id = who.appraiser_id
           /\ tenant.bank # NoText
           /\ IsEnrolled(who.appraiser_id)
           /\ RegistrationOf(who.appraiser_id).bank_id
                 # RegistrationOf(who.appraiser_id)'.bank_id
           /\ register_face(who.name, who.appraiser_id, "imgA", tenant.bank,
                            tenant.branch))
          => LET new == RegistrationOf(who.appraiser_id)'
             IN  /\ new.bank_id # NoId
                 /\ new.branch_id # NoId
                 /\ ActiveMapping(appraiser_bank_branch_map', who.appraiser_id,
                                  new.bank_id, new.branch_id)
                 /\ \A r \in BagToSet(appraiser_bank_branch_map)
                             \cup BagToSet(appraiser_bank_branch_map') :
                       MapKeyIs(r, who.appraiser_id, new.bank_id, new.branch_id)
                       \/ CopiesIn(r, appraiser_bank_branch_map')
                             = CopiesIn(r, appraiser_bank_branch_map)
                 /\ \A t \in RequestTenants :
                       (\/ ActiveMapping(appraiser_bank_branch_map, who.appraiser_id,
                                         t[1], t[2])
                        \/ t = <<new.bank_id, new.branch_id>>)
                       => /\ ActiveMapping(appraiser_bank_branch_map',
                                           who.appraiser_id, t[1], t[2])
                          /\ VerifyResult(overall_sessions', appraiser_bank_branch_map',
                                          who.name, t[1], t[2]).result.outcome
                                = "authorized"]_vars

\* A1, enrolled at bank 1 and re-enrolled at bank 2, is actively mapped to both
C28_Witness ==
    /\ result.op = "register"
    /\ result.outcome = "success"
    /\ result.appraiser_id = "A1"
    /\ result.path = "updated"
    /\ result.mapping_before = "absent"
    /\ RegistrationOf("A1").bank_id = 2
    /\ ActiveMapping(appraiser_bank_branch_map, "A1", 1, 1)
    /\ ActiveMapping(appraiser_bank_branch_map, "A1", 2, 2)

----------------------------------------------------------------------------
(* Storage failures, checked under SpecFailure *)

\* C29: an enrollment whose identity upsert or mapping upsert raises ends in an
\* error and leaves the banks, the branches, the tenant users, the identity rows
\* and the mapping rows as they were.
C29_FailedEnrollWritesNothing ==
    [][(result'.op = "register" /\ result'.fault \in {"identity", "mapping"})
       => /\ result'.outcome = "error_storage"
          /\ UNCHANGED <<banks, branches, tenant_users, overall_sessions,
                         appraiser_bank_branch_map>>]_vars

\* C30: an identification, an enrollment or a verification in which a storage
\* statement raised is answered with HTTP 500 and no body flag: its outcome is
\* not a no-match, a not-registered, a registered-elsewhere or a success.
C30_StorageFailureSurfaced ==
    result.fault # "none"
    => /\ result.op \in {"recognize", "register", "verify"}
       /\ result.response.status_code = 500
       /\ result.response.flag = "absent"
       /\ result.outcome \notin {"no_match", "not_registered", "registered_elsewhere",
                                 "recognized", "authorized", "success"}

\* the gallery query raised for an image whose face is enrolled
C30_Witness ==
    /\ result.op = "recognize"
    /\ result.fault = "gallery"
    /\ result.response.status_code = 500
    /\ IdentifyNow("imgA").outcome = "recognized"

====
